---- MODULE Spec2Model ----
(***************************************************************************)
(* A model of mmdtools: the PMX model decoder (io/pmx.py), the runtime     *)
(* bone graph (viewer/common/bone.py, model.py) and the key frame          *)
(* interpolation engine (viewer/common/key_frame.py, motion.py).           *)
(*                                                                         *)
(* Each component has a specification of its own (SpecBone, SpecMotion,    *)
(* SpecKeyFrame, SpecPmx); the variables of the components a               *)
(* specification does not run keep their initial values.                   *)
(*                                                                         *)
(* Numbers.  Python floats are modelled exactly, as rationals.  The        *)
(* numbers of the Bezier solver exceed TLC's 32 bit integers, so they are  *)
(* natural numbers in base 2^15, least significant digit first (B*         *)
(* operators).  An eased rate and a blended coordinate are numerators      *)
(* over the fixed denominator 127 * 2^48.                                  *)
(***************************************************************************)
EXTENDS Integers, Sequences, FiniteSets, TLC

VARIABLES
    \* ---- key frame engine (motion.py, key_frame.py)
    bone_animation,      \* VMDFile.bone_animation: name -> decoded keys, file order
    key_frames,          \* the BoneMotionKeyFrame objects, by identity
    motions_key_frames,  \* Motion.motions_key_frames: name -> ids, None last
    current_key_frames,  \* Motion.current_key_frames: name -> id
    current_frame,       \* Motion.current_frame
    delta_matrix,        \* Bone.delta_matrix of each track's bone
    calls,               \* the update() calls of the last operation, by track
    mpc,                 \* position of the viewer's loop
    \* ---- bone graph (model.py, bone.py)
    bone_data,           \* Model.bone_data: the decoded bones, by index
    motion_bones,        \* Model.motion_bones: the Bone objects, by index
    bone_stack,          \* the active calls of Bone.apply / get_global_matrix
    apply_index,         \* the bone the last loop of update_bones is at
    bpc,                 \* position of the bone graph's user
    \* ---- model decoder (io/pmx.py, io/utils.py)
    pmx_file,            \* how the file at `path` was written
    stream,              \* the bytes of the file
    fs_pos,              \* the bytes read so far (the position of fs._fp)
    header,              \* fs.header
    model,               \* the pmx.Model under construction, by section
    index_reads,         \* every call of _read_index so far
    warned,              \* warnings.warn was called
    pmx_error,           \* the exception load() ended with, "" when none
    ppc,                 \* the section load() is at
    \* ---- motion decoder (io/vmd.py); it reads stream, at fs_pos
    vmd_desc,            \* how the motion file at `path` was written
    vmd_file,            \* the vmd.VMDFile under construction
    vmd_error,           \* the exception load() ended with, "" when none
    vpc,                 \* the section _load_file is at
    \* ---- conversion to the viewer's model (core/mmd/convert.py, viewer.py)
    pmx_model,           \* the decoded pmx.Model given to from_pmx
    mmd_model,           \* the mmdtypes.Model from_pmx returned
    mesh,                \* Viewer.mesh: the face buffer of each material
    convert_error,       \* the exception from_pmx ended with, "" when none
    cpc,                 \* position of the conversion's user
    \* ---- Bone.ik_move (viewer/common/bone.py)
    ik,                  \* its arguments and locals
    ikpc,                \* its position
    \* ---- solve_bezier called on its own (viewer/common/key_frame.py)
    bezier,              \* its arguments and its result
    bzpc,                \* its position
    \* ---- bones that follow another bone (viewer/common/bone.py, model.py)
    granted_bones,       \* Model.motion_bones, with matrices of the plane
    posed_bones,         \* the bones as the last update_bones found them
    grant_step,          \* the steps made
    update_calls,        \* the calls the last update_bones made, in order
    gpc                  \* position of the viewer's step

motionVars == <<bone_animation, key_frames, motions_key_frames, current_key_frames,
                current_frame, delta_matrix, calls, mpc>>

boneVars == <<bone_data, motion_bones, bone_stack, apply_index, bpc>>

pmxVars == <<pmx_file, stream, fs_pos, header, model, index_reads, warned, pmx_error, ppc>>

vmdVars == <<vmd_desc, vmd_file, vmd_error, vpc>>

convertVars == <<pmx_model, mmd_model, mesh, convert_error, cpc>>

ikVars == <<ik, ikpc>>

bezierVars == <<bezier, bzpc>>

grantVars == <<granted_bones, posed_bones, grant_step, update_calls, gpc>>

vars == <<motionVars, boneVars, pmxVars, vmdVars, convertVars, ikVars, bezierVars, grantVars>>

\* what the key frame engine's operations leave alone
notMotion == <<boneVars, pmxVars, vmdVars, convertVars, ikVars, bezierVars,
    grantVars>>

\* what the bone graph's operations leave alone
notBone == <<motionVars, pmxVars, vmdVars, convertVars, ikVars, bezierVars,
    grantVars>>

\* what the model decoder's operations leave alone
notPmx == <<motionVars, boneVars, vmdVars, convertVars, ikVars, bezierVars,
    grantVars>>

\* what the motion decoder's operations leave alone: all but its position in
\* the stream
notVmd == <<motionVars, boneVars, pmx_file, stream, header, model, index_reads, warned,
            pmx_error, ppc, convertVars, ikVars, bezierVars, grantVars>>

\* what the conversion's operations leave alone
notConvert == <<motionVars, boneVars, pmxVars, vmdVars, ikVars, bezierVars,
    grantVars>>

\* what ik_move leaves alone
notIk == <<motionVars, boneVars, pmxVars, vmdVars, convertVars, bezierVars,
    grantVars>>

\* what the step of the following bones leaves alone
notGrant == <<motionVars, boneVars, pmxVars, vmdVars, convertVars, ikVars, bezierVars>>

\* what a call of solve_bezier leaves alone
notBezier == <<motionVars, boneVars, pmxVars, vmdVars, convertVars, ikVars,
    grantVars>>

\* Python's None, where an object identity or an index (an integer >= 0) is expected.
None == -1

\* the key frame engine, not in use
MotionIdle ==
    /\ bone_animation = <<>>
    /\ key_frames = <<>>
    /\ motions_key_frames = <<>>
    /\ current_key_frames = <<>>
    /\ current_frame = 0
    /\ delta_matrix = <<>>
    /\ calls = <<>>
    /\ mpc = "idle"

\* the model decoder, not in use
PmxIdle ==
    /\ pmx_file = <<>>
    /\ stream = <<>>
    /\ fs_pos = 0
    /\ header = <<>>
    /\ model = <<>>
    /\ index_reads = <<>>
    /\ warned = FALSE
    /\ pmx_error = ""
    /\ ppc = "idle"

\* the motion decoder, not in use
VmdIdle ==
    /\ vmd_desc = <<>>
    /\ vmd_file = <<>>
    /\ vmd_error = ""
    /\ vpc = "idle"

\* the conversion, not in use
ConvertIdle ==
    /\ pmx_model = <<>>
    /\ mmd_model = <<>>
    /\ mesh = <<>>
    /\ convert_error = ""
    /\ cpc = "idle"

\* the following bones, not in use
GrantIdle ==
    /\ granted_bones = <<>>
    /\ posed_bones = <<>>
    /\ grant_step = 0
    /\ update_calls = <<>>
    /\ gpc = "idle"

\* solve_bezier, not called on its own
BezierIdle ==
    /\ bezier = <<>>
    /\ bzpc = "idle"

\* ik_move, not called
IkIdle ==
    /\ ik = <<>>
    /\ ikpc = "idle"

\* the bone graph, not in use
BoneIdle ==
    /\ bone_data = <<>>
    /\ motion_bones = <<>>
    /\ bone_stack = <<>>
    /\ apply_index = 0
    /\ bpc = "idle"

(***************************************************************************)
(* Bounds of the model.                                                    *)
(***************************************************************************)
\* the bone records of a motion file
MaxKeys == 3
\* the largest frame number a record carries
MaxFrameNo == 2
\* Motion.step calls (frames 0 .. MaxStep - 1 are queried)
MaxStep == 4

(***************************************************************************)
(* Natural numbers of any size.                                            *)
(***************************************************************************)
Base == 2 ^ 15

RECURSIVE BNorm(_)
BNorm(a) ==
    IF a = <<>> THEN a
    ELSE IF a[Len(a)] = 0 THEN BNorm(SubSeq(a, 1, Len(a) - 1)) ELSE a

RECURSIVE BFromInt(_)
BFromInt(n) == IF n = 0 THEN <<>> ELSE <<n % Base>> \o BFromInt(n \div Base)

RECURSIVE BAddC(_, _, _)
BAddC(a, b, c) ==
    IF a = <<>> /\ b = <<>> THEN (IF c = 0 THEN <<>> ELSE <<c>>)
    ELSE LET x == IF a = <<>> THEN 0 ELSE Head(a)
             y == IF b = <<>> THEN 0 ELSE Head(b)
             s == x + y + c
         IN  <<s % Base>> \o BAddC(IF a = <<>> THEN a ELSE Tail(a),
                                   IF b = <<>> THEN b ELSE Tail(b), s \div Base)

BAdd(a, b) == BAddC(a, b, 0)

RECURSIVE BSubC(_, _, _)
BSubC(a, b, c) ==
    IF a = <<>> THEN <<>>
    ELSE LET y == IF b = <<>> THEN 0 ELSE Head(b)
             d == Head(a) - y - c
         IN  <<d % Base>> \o BSubC(Tail(a), IF b = <<>> THEN b ELSE Tail(b),
                                   IF d < 0 THEN 1 ELSE 0)

\* a - b, for a >= b
BSub(a, b) == BNorm(BSubC(a, b, 0))

RECURSIVE BMulSmallC(_, _, _)
BMulSmallC(a, k, c) ==
    IF a = <<>> THEN (IF c = 0 THEN <<>> ELSE <<c>>)
    ELSE LET p == Head(a) * k + c
         IN  <<p % Base>> \o BMulSmallC(Tail(a), k, p \div Base)

\* a * k, for 0 <= k < Base
BMulSmall(a, k) == IF k = 0 THEN <<>> ELSE BMulSmallC(a, k, 0)

RECURSIVE BMul(_, _)
BMul(a, b) ==
    IF a = <<>> \/ b = <<>> THEN <<>>
    ELSE BAdd(BMulSmall(a, Head(b)),
              LET r == BMul(a, Tail(b)) IN IF r = <<>> THEN r ELSE <<0>> \o r)

RECURSIVE BLessFrom(_, _, _)
BLessFrom(a, b, i) ==
    IF i = 0 THEN FALSE
    ELSE IF a[i] # b[i] THEN a[i] < b[i] ELSE BLessFrom(a, b, i - 1)

BLess(a, b) == IF Len(a) # Len(b) THEN Len(a) < Len(b) ELSE BLessFrom(a, b, Len(a))

\* |a - b|
BDist(a, b) == IF BLess(a, b) THEN BSub(b, a) ELSE BSub(a, b)

(***************************************************************************)
(* key_frame.py: solve_bezier.                                             *)
(*                                                                         *)
(* t is TT / 2^16 (the 15 bisection steps are 2^14 .. 1 in these units), a *)
(* control value is c / 127 (BoneMotionKeyFrame divides the file's bytes   *)
(* by 127.0), linear_rate is the pair <<p, q>> for p / q with q > 0.       *)
(***************************************************************************)
TOne == 2 ^ 16

\* 127 * 2^48: the denominator of a cubic's value
Denom == <<0, 0, 0, 127 * 8>>

\* 3 s^2 t c0 + 3 s t^2 c1 + t^3 over Denom, for t = bT / 2^16 and s = bS / 2^16
CubicOf(c0, c1, bT, bS) ==
    BAdd(BAdd(BMulSmall(BMul(BMul(bS, bS), bT), 3 * c0),
              BMulSmall(BMul(bS, BMul(bT, bT)), 3 * c1)),
         BMulSmall(BMul(BMul(bT, bT), bT), 127))

\* the cubic at t = TT / 2^16, s = 1 - t
Cubic(c0, c1, TT) == CubicOf(c0, c1, BFromInt(TT), BFromInt(TOne - TT))

\* lhs - rhs (lhs + rhs when the rate is negative), as its sign and magnitude
Ft(lhs, rhs, negative, unit) ==
    [positive |-> IF negative THEN lhs # <<>> \/ rhs # <<>> ELSE BLess(rhs, lhs),
     abs      |-> IF negative THEN BAdd(lhs, rhs) ELSE BDist(lhs, rhs),
     unit     |-> unit]

\* ft = Cubic(x) - linear_rate, as its sign and |ft| * 127 * 2^48 * q
BezierError(x, linear_rate, TT) ==
    Ft(BMulSmall(Cubic(x[1], x[2], TT), linear_rate[2]),
       BMulSmall(Denom, IF linear_rate[1] < 0 THEN -linear_rate[1] ELSE linear_rate[1]),
       linear_rate[1] < 0,
       BMulSmall(Denom, linear_rate[2]))

\* np.abs(ft) < 1e-5
BezierConverged(e) == BLess(BMul(e.abs, BFromInt(100000)), e.unit)

RECURSIVE BezierBisect(_, _, _, _)
\* one pass of the loop body, ft already computed: break, or move t by sign / (4 << i)
BezierStep(x, linear_rate, TT, i, e) ==
    IF BezierConverged(e) THEN TT
    ELSE BezierBisect(x, linear_rate,
                      IF e.positive THEN TT - TOne \div (4 * (2 ^ i))
                      ELSE TT + TOne \div (4 * (2 ^ i)),
                      i + 1)

\* the loop for i in range(15), from pass i on
BezierBisect(x, linear_rate, TT, i) ==
    IF i = 15 THEN TT
    ELSE BezierStep(x, linear_rate, TT, i, BezierError(x, linear_rate, TT))

\* the eased rate, a numerator over Denom
solve_bezier(x, y, linear_rate) ==
    Cubic(y[1], y[2], BezierBisect(x, linear_rate, TOne \div 2, 0))

(***************************************************************************)
(* Symbolic 4x4 matrices and quaternions.  pyrr's matrix44 and quaternion  *)
(* are libraries: a matrix is the term that built it, and a product of     *)
(* matrices is the sequence of its factors, leftmost first.                *)
(***************************************************************************)
Identity == <<>>

create_from_translation(v) == <<[kind |-> "translation", val |-> v]>>

create_from_inverse_of_quaternion(q) == <<[kind |-> "inverse_of_quaternion", val |-> q]>>

\* matrix44.multiply(a, b)
multiply(a, b) == a \o b

\* a quaternion read from a file
Quat(v) == [kind |-> "literal", val |-> v]

\* pyrr quaternion.slerp(q1, q2, t)
slerp(q1, q2, t) == [kind |-> "slerp", val |-> <<q1, q2, t>>]


(***************************************************************************)
(* The decoded motion: VMDFile.bone_animation.                             *)
(***************************************************************************)
BoneNames == {"b1", "b2"}

FrameNumbers == 0 .. MaxFrameNo

\* The 16 interpolation bytes BoneMotionKeyFrame reads: X_x1 Y_x1 Z_x1 R_x1,
\* X_y1 .. R_y1, X_x2 .. R_x2, X_y2 .. R_y2.  The first is MMD's default, the
\* diagonal control points (20, 20) and (107, 107) on every channel.
LinearInterpolation ==
    <<20, 20, 20, 20,  20, 20, 20, 20,  107, 107, 107, 107,  107, 107, 107, 107>>

EasedInterpolation ==
    <<64, 0, 127, 20,  0, 64, 0, 20,  64, 127, 0, 107,  127, 64, 127, 107>>

Interpolations == {LinearInterpolation, EasedInterpolation}

\* The bone records of a motion file, in file order: <<name, frame number>>.
BoneRecords == UNION {[1 .. n -> BoneNames \X FrameNumbers] : n \in 1 .. MaxKeys}

\* vmd._load_bone_frame_key: the i-th record of the file.  The values of a key
\* do not steer the engine; each record gets values of its own (the first is
\* the rest pose: no translation, the identity rotation).
BoneFrameKey(i, frame_number, interpolation) ==
    [id            |-> i,
     frame_number  |-> frame_number,
     location      |-> <<0, 10 * (i - 1), i - 1>>,
     rotation      |-> <<0, i - 1, 0, 1>>,
     interpolation |-> interpolation]

RECURSIVE KeysNamed(_, _, _, _)
KeysNamed(records, interpolation, name, i) ==
    IF i > Len(records) THEN <<>>
    ELSE (IF records[i][1] = name
          THEN <<BoneFrameKey(i, records[i][2], interpolation)>> ELSE <<>>)
         \o KeysNamed(records, interpolation, name, i + 1)

\* vmd._load_bone_animation: container[name].append(frame_key), record by record
load_bone_animation(records, interpolation) ==
    [name \in {records[i][1] : i \in DOMAIN records} |->
        KeysNamed(records, interpolation, name, 1)]

(***************************************************************************)
(* key_frame.py: BoneMotionKeyFrame.                                       *)
(***************************************************************************)
\* np.array(interpolation)[:16].reshape(2, 8).T / 127.0: row j is (I[j], I[8 + j])
bezier_points(interpolation) ==
    LET I      == SubSeq(interpolation, 1, 16)
        row(j) == <<I[j + 1], I[8 + j + 1]>>
    IN  [x |-> [x |-> row(0), y |-> row(4)],
         y |-> [x |-> row(1), y |-> row(5)],
         z |-> [x |-> row(2), y |-> row(6)],
         r |-> [x |-> row(3), y |-> row(7)]]

\* The calls of solve_bezier the engine can make: the control points of the
\* interpolation blocks above, and a rate p / q inside a segment.
BezierCalls ==
    {<<c.x, c.y, r>> :
        c \in UNION {{bezier_points(I).x, bezier_points(I).y, bezier_points(I).z,
                      bezier_points(I).r} : I \in Interpolations},
        r \in {pq \in (0 .. MaxFrameNo + 1) \X (1 .. MaxFrameNo + 1) : pq[1] <= pq[2]}}

\* functools.lru_cache: each result is computed once
BezierCache == [c \in BezierCalls |-> solve_bezier(c[1], c[2], c[3])]

\* solve_bezier behind its @lru_cache(maxsize=512)
solve_bezier_cached(x, y, linear_rate) == BezierCache[<<x, y, linear_rate>>]

\* BoneMotionKeyFrame.__init__
BoneMotionKeyFrame(bone, key_frame) ==
    [bone          |-> bone,
     frame_number  |-> key_frame.frame_number,
     rotation      |-> Quat(key_frame.rotation),
     translation   |-> key_frame.location,
     bezier_points |-> bezier_points(key_frame.interpolation),
     next_frame    |-> None,
     is_next_frame_initialized |-> FALSE]

\* BoneMotionKeyFrame.set_next_frame
set_next_frame(self, next_frame) ==
    [self EXCEPT !.is_next_frame_initialized = TRUE, !.next_frame = next_frame]

\* get_linear_rate without the sign of the distance to the key
unsigned_linear_rate(kfs, k, frame) ==
    LET p == frame - kfs[k].frame_number
        q == kfs[kfs[k].next_frame].frame_number - kfs[k].frame_number
    IN  IF q = 0 THEN <<0, 1>>
        ELSE <<IF p < 0 THEN -p ELSE p, IF q < 0 THEN -q ELSE q>>

\* get_linear_rate held at the end of the segment
clamped_linear_rate(kfs, k, frame) ==
    LET p == frame - kfs[k].frame_number
        q == kfs[kfs[k].next_frame].frame_number - kfs[k].frame_number
    IN  IF q = 0 THEN <<0, 1>>
        ELSE IF p > q THEN <<q, q>> ELSE <<p, q>>

\* BoneMotionKeyFrame.get_linear_rate, for a key with a successor: <<p, q>> is p / q
get_linear_rate(kfs, k, frame) ==
    LET self == kfs[k]
        next == kfs[self.next_frame]
    IN  IF next.frame_number = self.frame_number THEN <<0, 1>>
        ELSE LET p == frame - self.frame_number
                 q == next.frame_number - self.frame_number
             IN  IF q < 0 THEN <<-p, -q>> ELSE <<p, q>>

RateLess(rate, n) == rate[1] < n * rate[2]

RateGreater(rate, n) == rate[1] > n * rate[2]

\* next * rate + cur * (1 - rate), a numerator over Denom
Blend(cur, next, rate) == BAdd(BMulSmall(rate, next), BMulSmall(BSub(Denom, rate), cur))

\* BoneMotionKeyFrame.interp_translation
interp_translation(kfs, k, linear_rate) ==
    LET self == kfs[k]
        next == kfs[self.next_frame]
        bezier_x_rate == solve_bezier_cached(self.bezier_points.x.x,
                                             self.bezier_points.x.y, linear_rate)
        bezier_y_rate == solve_bezier_cached(self.bezier_points.y.x,
                                             self.bezier_points.y.y, linear_rate)
        bezier_z_rate == solve_bezier_cached(self.bezier_points.z.x,
                                             self.bezier_points.z.y, linear_rate)
    IN  <<Blend(self.translation[1], next.translation[1], bezier_x_rate),
          Blend(self.translation[2], next.translation[2], bezier_y_rate),
          Blend(self.translation[3], next.translation[3], bezier_z_rate)>>

\* BoneMotionKeyFrame.interp_rotation
interp_rotation(kfs, k, linear_rate) ==
    LET self == kfs[k]
        next == kfs[self.next_frame]
        bezier_r_rate == solve_bezier_cached(self.bezier_points.r.x,
                                             self.bezier_points.r.y, linear_rate)
    IN  slerp(self.rotation, next.rotation, bezier_r_rate)

\* a key's literal translation, each coordinate a numerator over Denom
LiteralTranslation(v) == <<BMulSmall(Denom, v[1]), BMulSmall(Denom, v[2]), BMulSmall(Denom, v[3])>>

\* Bone.add_matrix
add_matrix(delta, matrix) == multiply(matrix, delta)

\* a translate that leaves the delta matrix alone
no_translate(delta, translation) == delta

\* Bone.translate
translate(delta, translation) == add_matrix(delta, create_from_translation(translation))

\* Bone.rotate
rotate(delta, rotation) == add_matrix(delta, create_from_inverse_of_quaternion(rotation))

\* an update that always moves on to next_frame, as a variant
update_moving_on(kfs, k, frame, delta) == [ret |-> kfs[k].next_frame, delta |-> delta]

\* BoneMotionKeyFrame.update(frame) of key k, on its bone's delta matrix: the key
\* returned and the delta matrix left
update(kfs, k, frame, delta) ==
    LET self == kfs[k]
    IN  IF self.next_frame = None
        THEN [ret   |-> k,
              delta |-> rotate(translate(delta, LiteralTranslation(self.translation)),
                               self.rotation)]
        ELSE LET linear_rate == get_linear_rate(kfs, k, frame)
             IN  IF RateLess(linear_rate, 1) THEN [ret |-> k, delta |-> delta]
                 ELSE IF RateGreater(linear_rate, 1)
                      THEN [ret |-> self.next_frame, delta |-> delta]
                      ELSE [ret   |-> IF kfs[self.next_frame].frame_number <= frame
                                      THEN self.next_frame ELSE k,
                            delta |-> rotate(translate(delta,
                                                       interp_translation(kfs, k, linear_rate)),
                                             interp_rotation(kfs, k, linear_rate))]

(***************************************************************************)
(* motion.py: Motion.                                                      *)
(***************************************************************************)
\* list.sort(key=lambda x: x.frame_number): stable, ascending.  ids is a list of
\* key identities, kfs the objects.
RECURSIVE InsertByFrame(_, _, _)
InsertByFrame(sorted, k, kfs) ==
    IF sorted = <<>> THEN <<k>>
    ELSE IF kfs[k].frame_number < kfs[Head(sorted)].frame_number THEN <<k>> \o sorted
         ELSE <<Head(sorted)>> \o InsertByFrame(Tail(sorted), k, kfs)

\* the list left in file order
file_order(ids, kfs) == ids

RECURSIVE sort_by_frame_number(_, _)
sort_by_frame_number(ids, kfs) ==
    IF ids = <<>> THEN <<>>
    ELSE InsertByFrame(sort_by_frame_number(SubSeq(ids, 1, Len(ids) - 1), kfs),
                       ids[Len(ids)], kfs)

\* the key objects Motion.__init__ creates, unlinked
NewKeyFrames(animation) ==
    LET ids == UNION {{animation[name][i].id : i \in DOMAIN animation[name]} :
                        name \in DOMAIN animation}
        where(id) == CHOOSE ni \in {<<name, i>> : name \in DOMAIN animation, i \in 1 .. MaxKeys} :
                        /\ ni[2] \in DOMAIN animation[ni[1]]
                        /\ animation[ni[1]][ni[2]].id = id
    IN  [id \in ids |-> BoneMotionKeyFrame(where(id)[1], animation[where(id)[1]][where(id)[2]])]

\* Motion.__init__: per track, the keys sorted, None appended, each key linked to
\* the next entry of the list
MotionLists(animation) ==
    LET kfs == NewKeyFrames(animation)
    IN  [name \in DOMAIN animation |->
            sort_by_frame_number([i \in DOMAIN animation[name] |-> animation[name][i].id], kfs)
            \o <<None>>]

MotionKeyFrames(animation) ==
    LET kfs   == NewKeyFrames(animation)
        lists == MotionLists(animation)
        next(id) == LET l == lists[kfs[id].bone]
                        j == CHOOSE j \in 1 .. Len(l) - 1 : l[j] = id
                    IN  l[j + 1]
    IN  [id \in DOMAIN kfs |-> set_next_frame(kfs[id], next(id))]

\* Motion.finished
finished ==
    \A name \in DOMAIN current_key_frames :
        key_frames[current_key_frames[name]].next_frame = None

(***************************************************************************)
(* The key frame engine's operations.                                      *)
(***************************************************************************)
\* motion_data = load_motion(path) has returned; nothing is constructed yet
InitMotion ==
    /\ \E records \in BoneRecords, interpolation \in Interpolations :
          bone_animation = load_bone_animation(records, interpolation)
    /\ key_frames = <<>>
    /\ motions_key_frames = <<>>
    /\ current_key_frames = <<>>
    /\ current_frame = 0
    /\ delta_matrix = [name \in BoneNames |-> Identity]
    /\ calls = <<>>
    /\ mpc = "new"
    /\ BoneIdle
    /\ PmxIdle
    /\ VmdIdle
    /\ ConvertIdle
    /\ IkIdle
    /\ BezierIdle
    /\ GrantIdle

\* Motion(model, motion_data)
MotionInit ==
    /\ mpc = "new"
    /\ key_frames' = MotionKeyFrames(bone_animation)
    /\ motions_key_frames' = MotionLists(bone_animation)
    /\ current_key_frames' = [name \in DOMAIN bone_animation |->
                                 MotionLists(bone_animation)[name][1]]
    /\ current_frame' = 0
    /\ mpc' = "ready"
    /\ UNCHANGED <<bone_animation, delta_matrix, calls>>
    /\ UNCHANGED notMotion

\* the record kept of an update() call on a track's current key: r is what the
\* call returned and the delta matrix it left
Call(name, frame, r) ==
    [key    |-> current_key_frames[name],
     frame  |-> frame,
     before |-> delta_matrix[name],
     after  |-> r.delta,
     ret    |-> r.ret]

\* update(frame) on each track's current key
UpdateAll(frame) ==
    [name \in {n \in DOMAIN current_key_frames : current_key_frames[n] # None} |->
        update(key_frames, current_key_frames[name], frame, delta_matrix[name])]

\* Motion.step but for its counting of the frame: update(current_frame) on each
\* track's current key
StepKeys ==
    /\ mpc = "ready"
    /\ \E done \in {UpdateAll(current_frame)} :
          /\ calls' = [name \in DOMAIN done |-> Call(name, current_frame, done[name])]
          /\ current_key_frames' =
                [name \in DOMAIN current_key_frames |->
                    IF name \in DOMAIN done THEN done[name].ret
                    ELSE current_key_frames[name]]
          /\ delta_matrix' =
                [name \in DOMAIN delta_matrix |->
                    IF name \in DOMAIN done THEN done[name].delta ELSE delta_matrix[name]]
    /\ mpc' = "stepped"
    /\ UNCHANGED <<bone_animation, key_frames, motions_key_frames>>
    /\ UNCHANGED notMotion

\* Motion.step, the first half of Viewer.step
MotionStep ==
    /\ current_frame < MaxStep
    /\ StepKeys
    /\ current_frame' = current_frame + 1

\* Motion.step at a frame from MaxStep on. Every key's frame number is below
\* such a frame, and update tells two such frames apart in nothing: the rate
\* of a key is above 1 at both, or 0 at both. The frames are counted no
\* further.
MotionStepLate ==
    /\ current_frame = MaxStep
    /\ StepKeys
    /\ UNCHANGED current_frame

\* Model.update_bones, the second half of Viewer.step, as far as the deltas of the
\* tracks' bones go: each is folded into the pose and reset (Bone.reset_delta)
UpdateBonesReset ==
    /\ mpc = "stepped"
    /\ delta_matrix' = [name \in DOMAIN delta_matrix |-> Identity]
    /\ calls' = <<>>
    /\ mpc' = "ready"
    /\ UNCHANGED <<bone_animation, key_frames, motions_key_frames, current_key_frames,
                   current_frame>>
    /\ UNCHANGED notMotion

\* BoneMotionKeyFrame.update(frame) called on a track's current key with any frame
UpdateCall ==
    /\ mpc = "ready"
    /\ \E name \in DOMAIN current_key_frames, frame \in 0 .. MaxStep :
          \E r \in {update(key_frames, current_key_frames[name], frame, delta_matrix[name])} :
             /\ calls' = [n \in {name} |-> Call(name, frame, r)]
             /\ current_key_frames' = [current_key_frames EXCEPT ![name] = r.ret]
             /\ delta_matrix' = [delta_matrix EXCEPT ![name] = r.delta]
    /\ mpc' = "stepped"
    /\ UNCHANGED <<bone_animation, key_frames, motions_key_frames, current_frame>>
    /\ UNCHANGED notMotion

NextMotion == MotionInit \/ MotionStep \/ UpdateBonesReset

SpecMotion == InitMotion /\ [][NextMotion]_vars

\* the viewer's loop with no end to its steps
NextMotionRuns == MotionInit \/ MotionStep \/ MotionStepLate \/ UpdateBonesReset

\* a step of Motion.step among the steps of NextMotionRuns
StepTaken == mpc = "ready" /\ mpc' = "stepped"

\* the viewer's loop goes on: the motion is constructed, and each step and
\* each update_bones that can be made is made. The last conjunct is weak
\* fairness of Motion.step, written out: a step can be taken when mpc is
\* "ready".
SpecMotionRuns ==
    /\ InitMotion
    /\ [][NextMotionRuns]_vars
    /\ WF_vars(MotionInit)
    /\ WF_vars(UpdateBonesReset)
    /\ ([]<>(mpc # "ready") \/ []<><<StepTaken>>_vars)

NextKeyFrame == MotionInit \/ UpdateCall \/ UpdateBonesReset

SpecKeyFrame == InitMotion /\ [][NextKeyFrame]_vars

(***************************************************************************)
(* Properties of the key frame engine.                                     *)
(***************************************************************************)
\* the update() calls of the last operation
CallsMade == {calls[name] : name \in DOMAIN calls}

\* the key a call was made on, and its successor
KeyOf(c) == key_frames[c.key]

HasSuccessor(c) == KeyOf(c).next_frame # None

SuccessorOf(c) == key_frames[KeyOf(c).next_frame]

\* the delta matrix after a translation and then a rotation were applied to it
Posed(before, translation, rotation) ==
    <<[kind |-> "inverse_of_quaternion", val |-> rotation],
      [kind |-> "translation", val |-> translation]>> \o before

\* the call is inside its segment: cur.frame <= f <= next.frame, next strictly later
InsideSegment(c) ==
    /\ HasSuccessor(c)
    /\ KeyOf(c).frame_number < SuccessorOf(c).frame_number
    /\ KeyOf(c).frame_number <= c.frame
    /\ c.frame <= SuccessorOf(c).frame_number

\* the queried frame precedes the key: linear_rate < 0
BeforeKey(c) ==
    /\ HasSuccessor(c)
    /\ KeyOf(c).frame_number < SuccessorOf(c).frame_number
    /\ c.frame < KeyOf(c).frame_number

\* the queried frame is past the segment: linear_rate > 1
PastSegment(c) ==
    /\ HasSuccessor(c)
    /\ KeyOf(c).frame_number < SuccessorOf(c).frame_number
    /\ c.frame > SuccessorOf(c).frame_number

\* the rate (f - cur.frame) / (next.frame - cur.frame) of a call
RateOf(c) ==
    <<c.frame - KeyOf(c).frame_number,
      SuccessorOf(c).frame_number - KeyOf(c).frame_number>>

\* C2: for a key with a strictly later successor and cur.frame <= f <= next.frame,
\* update(f) composes the eased blend of the two translations and the eased slerp
\* of the two rotations into the bone's delta, and returns the successor exactly
\* when next.frame <= f.
C2_BlendInsideSegment ==
    \A c \in CallsMade :
        InsideSegment(c) =>
            /\ c.after = Posed(c.before,
                               interp_translation(key_frames, c.key, RateOf(c)),
                               interp_rotation(key_frames, c.key, RateOf(c)))
            /\ c.ret = IF SuccessorOf(c).frame_number <= c.frame
                       THEN KeyOf(c).next_frame ELSE c.key

\* C3, as the code has it: when the queried frame precedes the current key's frame
\* (linear_rate < 0), update keeps the cursor on the current key and leaves the
\* bone's delta as it was: no translation and no rotation is applied.
C3_BeforeKeyNothingApplied ==
    \A c \in CallsMade :
        BeforeKey(c) => c.ret = c.key /\ c.after = c.before

\* C3 as stated: ... and the bone is posed at the current key's literal
\* translation and rotation for that step.
C3_BeforeKeyLiteralPose ==
    \A c \in CallsMade :
        BeforeKey(c) =>
            /\ c.ret = c.key
            /\ c.after = Posed(c.before, LiteralTranslation(KeyOf(c).translation),
                               KeyOf(c).rotation)

\* a step queried a frame before the track's current key
C3_Witness ==
    \E c \in CallsMade : BeforeKey(c) /\ c.ret = c.key /\ mpc = "stepped"

\* C4: when the queried frame lies past the current segment (linear_rate > 1),
\* update returns the successor key and leaves the bone's delta unchanged.
C4_PastSegmentReturnsSuccessor ==
    \A c \in CallsMade :
        PastSegment(c) => c.ret = KeyOf(c).next_frame /\ c.after = c.before

\* update was called with a frame past the segment and returned the successor
C4_Witness ==
    \E c \in CallsMade :
        PastSegment(c) /\ c.ret = KeyOf(c).next_frame /\ current_key_frames[KeyOf(c).bone] = c.ret

\* C5: when the current key has no successor, an update call applies exactly that
\* key's literal translation and rotation and returns the same key: the cursor
\* stays on the last key.
C5_NoSuccessorHolds ==
    \A c \in CallsMade :
        ~HasSuccessor(c) =>
            /\ c.ret = c.key
            /\ current_key_frames[KeyOf(c).bone] = c.key
            /\ c.after = Posed(c.before, LiteralTranslation(KeyOf(c).translation),
                               KeyOf(c).rotation)

\* a step after the track's last frame called update on the last key
C5_Witness ==
    \E c \in CallsMade :
        /\ ~HasSuccessor(c)
        /\ c.frame > KeyOf(c).frame_number
        /\ c.ret = c.key
        /\ Len(c.after) = 2

\* the keys reached from id by next_frame links, at most n of them
RECURSIVE Chain(_, _)
Chain(id, n) ==
    IF id = None \/ n = 0 THEN <<>>
    ELSE <<id>> \o Chain(key_frames[id].next_frame, n - 1)

\* Motion has just been constructed
Constructed == mpc = "ready" /\ current_frame = 0

\* C6: after Motion is constructed, for every track the initial current key is a
\* key of smallest frame number, and the next_frame links from it visit every key
\* of the track exactly once, in non-decreasing frame order, ending at None.
C6_TracksSortedAndLinked ==
    Constructed =>
        \A name \in DOMAIN bone_animation :
            LET track == bone_animation[name]
                chain == Chain(current_key_frames[name], Len(track) + 1)
            IN  /\ \A i \in DOMAIN track :
                      key_frames[current_key_frames[name]].frame_number
                          <= track[i].frame_number
                /\ Len(chain) = Len(track)
                /\ {chain[i] : i \in DOMAIN chain} = {track[i].id : i \in DOMAIN track}
                /\ \A i \in 1 .. Len(chain) - 1 :
                      key_frames[chain[i]].frame_number
                          <= key_frames[chain[i + 1]].frame_number
                /\ key_frames[chain[Len(chain)]].next_frame = None

\* Motion was constructed from a track whose keys are out of order in the file
C6_Witness ==
    /\ Constructed
    /\ \E name \in DOMAIN bone_animation :
          \E i, j \in DOMAIN bone_animation[name] :
              /\ i < j
              /\ bone_animation[name][i].frame_number > bone_animation[name][j].frame_number
              /\ key_frames[bone_animation[name][j].id].next_frame # None

(***************************************************************************)
(* model.py, bone.py: the bone graph.                                      *)
(*                                                                         *)
(* A Bone object is named by its index in Model.motion_bones.  The bones   *)
(* here are plain: no IK, no grant.                                        *)
(***************************************************************************)
\* the bones of a model
MaxBones == 3
\* the depth of nested calls at which Python raises RecursionError
RecursionLimit == 5

\* pyrr matrix44.inverse
inverse(m) == <<[kind |-> "inverse", val |-> m]>>

\* a decoded bone (mmd.Bone), as far as the graph reads it
BoneData(i, parent_index) ==
    [parent_index            |-> parent_index,
     location                |-> <<i, 0, 0>>,
     is_ik                   |-> FALSE,
     has_additional_location |-> FALSE,
     has_additional_rotation |-> FALSE]

\* the bone lists of a model: n bones, each parent index any of -1 .. n - 1
BoneLists ==
    UNION {{[i \in 0 .. n - 1 |-> BoneData(i, parents[i])] :
                parents \in [0 .. n - 1 -> -1 .. n - 1]} : n \in 1 .. MaxBones}

\* Bone.__init__
Bone(index, bone) ==
    [id                    |-> index,
     init_matrix           |-> create_from_translation(bone.location),
     offset_matrix         |-> inverse(create_from_translation(bone.location)),
     delta_matrix          |-> Identity,
     local_matrix          |-> Identity,
     part_matrix           |-> Identity,
     global_matrix         |-> create_from_translation(bone.location),
     parent                |-> None,
     is_updated            |-> FALSE,
     is_parent_initialized |-> FALSE]

\* Bone.set_parent_bone, on bone i of bones; parent is a bone's index or None
set_parent_bone(bones, i, parent) ==
    IF parent = None THEN [bones[i] EXCEPT !.is_parent_initialized = TRUE]
    ELSE IF bones[i].id < bones[parent].id
         THEN [bones[i] EXCEPT !.is_parent_initialized = TRUE]
         ELSE [bones[i] EXCEPT !.is_parent_initialized = TRUE,
                               !.parent = parent,
                               !.part_matrix = multiply(bones[i].init_matrix,
                                                        bones[parent].offset_matrix)]

\* the objects of the first loop of Model._create_motion_bones
NewBones(data) == [i \in DOMAIN data |-> Bone(i, data[i])]

\* Model._create_motion_bones: the objects, then each one's parent
create_motion_bones(data) ==
    [i \in DOMAIN data |->
        set_parent_bone(NewBones(data), i,
                        IF data[i].parent_index < 0 THEN None ELSE data[i].parent_index)]

\* Bone.get_global_matrix(check_updated)
RECURSIVE get_global_matrix(_, _, _)
get_global_matrix(bones, b, check_updated) ==
    IF check_updated /\ bones[b].is_updated THEN bones[b].global_matrix
    ELSE multiply(bones[b].delta_matrix,
                  IF bones[b].parent # None
                  THEN multiply(bones[b].part_matrix,
                                get_global_matrix(bones, bones[b].parent, check_updated))
                  ELSE bones[b].global_matrix)

\* the end of Bone.apply, once the parent is up to date
applied(bones, b) ==
    [bones[b] EXCEPT !.global_matrix = get_global_matrix(bones, b, TRUE),
                     !.local_matrix  = multiply(bones[b].offset_matrix,
                                                get_global_matrix(bones, b, TRUE)),
                     !.is_updated    = TRUE]

\* Bone.apply must first call self.parent.apply()
ParentPending(bones, b) ==
    bones[b].parent # None /\ ~bones[bones[b].parent].is_updated

(***************************************************************************)
(* The bone graph's operations.                                            *)
(***************************************************************************)
\* model_data = load_model(path) has returned
InitBone ==
    /\ bone_data \in BoneLists
    /\ motion_bones = <<>>
    /\ bone_stack = <<>>
    /\ apply_index = 0
    /\ bpc = "new"
    /\ MotionIdle
    /\ PmxIdle
    /\ VmdIdle
    /\ ConvertIdle
    /\ IkIdle
    /\ BezierIdle
    /\ GrantIdle

\* Model._create_motion_bones()
CreateMotionBones ==
    /\ bpc = "new"
    /\ motion_bones' = create_motion_bones(bone_data)
    /\ bpc' = "created"
    /\ UNCHANGED <<bone_data, bone_stack, apply_index>>
    /\ UNCHANGED notBone

\* Model.update_bones, up to its last loop: no bone is IK or follows another,
\* the update flags are reset
UpdateBonesBegin ==
    /\ bpc = "created"
    /\ motion_bones' = [i \in DOMAIN motion_bones |->
                           [motion_bones[i] EXCEPT !.is_updated = FALSE]]
    /\ apply_index' = 0
    /\ bpc' = "applying"
    /\ UNCHANGED <<bone_data, bone_stack>>
    /\ UNCHANGED notBone

\* the last loop of update_bones calls bone.apply() on its next bone
ApplyCall ==
    /\ bpc = "applying"
    /\ bone_stack = <<>>
    /\ apply_index \in DOMAIN motion_bones
    /\ bone_stack' = <<apply_index>>
    /\ UNCHANGED <<bone_data, motion_bones, apply_index, bpc>>
    /\ UNCHANGED notBone

\* Bone.apply: the parent is not up to date, self.parent.apply() is called
ApplyParent ==
    /\ bpc = "applying"
    /\ bone_stack # <<>>
    /\ ParentPending(motion_bones, bone_stack[Len(bone_stack)])
    /\ IF Len(bone_stack) < RecursionLimit
       THEN /\ bone_stack' =
                  Append(bone_stack, motion_bones[bone_stack[Len(bone_stack)]].parent)
            /\ bpc' = bpc
       ELSE /\ bone_stack' = bone_stack
            /\ bpc' = "RecursionError"
    /\ UNCHANGED <<bone_data, motion_bones, apply_index>>
    /\ UNCHANGED notBone

\* Bone.apply: the matrices are set and the call returns; when it is the loop's
\* call that returns, the loop resets the bone's delta and moves on
ApplyReturn ==
    /\ bpc = "applying"
    /\ bone_stack # <<>>
    /\ ~ParentPending(motion_bones, bone_stack[Len(bone_stack)])
    /\ \E b \in {bone_stack[Len(bone_stack)]} :
          /\ bone_stack' = SubSeq(bone_stack, 1, Len(bone_stack) - 1)
          /\ IF Len(bone_stack) = 1
             THEN /\ motion_bones' =
                        [motion_bones EXCEPT
                            ![b] = [applied(motion_bones, b) EXCEPT !.delta_matrix = Identity]]
                  /\ apply_index' = apply_index + 1
             ELSE /\ motion_bones' = [motion_bones EXCEPT ![b] = applied(motion_bones, b)]
                  /\ apply_index' = apply_index
    /\ UNCHANGED <<bone_data, bpc>>
    /\ UNCHANGED notBone

\* update_bones returns
UpdateBonesEnd ==
    /\ bpc = "applying"
    /\ bone_stack = <<>>
    /\ apply_index \notin DOMAIN motion_bones
    /\ bpc' = "created"
    /\ UNCHANGED <<bone_data, motion_bones, bone_stack, apply_index>>
    /\ UNCHANGED notBone

NextBone ==
    \/ CreateMotionBones
    \/ UpdateBonesBegin
    \/ ApplyCall
    \/ ApplyParent
    \/ ApplyReturn
    \/ UpdateBonesEnd

SpecBone == InitBone /\ [][NextBone]_vars

\* C1: in a bone graph built from any list of N bones, a bone is linked to a
\* parent only when the parent's index is strictly smaller than its own; hence
\* the parent links from any bone reach a root within N steps, and the parent
\* recursion of apply nests at most N calls and ends.
C1_ParentLinksReachRoot ==
    /\ \A i \in DOMAIN motion_bones :
          motion_bones[i].parent # None => motion_bones[i].parent < i
    /\ Len(bone_stack) <= Cardinality(DOMAIN bone_data)
    /\ bpc # "RecursionError"

(***************************************************************************)
(* io/utils.py: FileReadStream, and the struct module under it.            *)
(*                                                                         *)
(* A byte is a number 0 .. 255.  A float is named by its four bytes (no    *)
(* arithmetic is done on one); a str is the sequence of its code points.   *)
(* A reader is the state of one pass over the file: the position of        *)
(* fs._fp, the exception raised ("" when none), the values read so far,    *)
(* the log of _read_index calls, and whether a warning was issued.         *)
(***************************************************************************)
Reader(pos, reads) ==
    [pos |-> pos, err |-> "", out |-> <<>>, reads |-> reads, warned |-> FALSE]

\* raise
Raise(r, exception) == [r EXCEPT !.err = exception]

\* the value read last
Last(r) == r.out[Len(r.out)]

\* struct.calcsize of a one letter format
calcsize(fmt) ==
    CASE fmt \in {"b", "B"} -> 1
      [] fmt \in {"h", "H"} -> 2
      [] fmt \in {"i", "I", "l", "L", "f"} -> 4

\* little endian, unsigned
RECURSIVE Unsigned(_)
Unsigned(bs) == IF bs = <<>> THEN 0 ELSE Head(bs) + 256 * Unsigned(Tail(bs))

\* little endian, two's complement
Signed(bs) ==
    IF bs[Len(bs)] < 128 THEN Unsigned(bs)
    ELSE Unsigned(SubSeq(bs, 1, Len(bs) - 1)) + (bs[Len(bs)] - 256) * 256 ^ (Len(bs) - 1)

\* struct.unpack('<' + fmt, bs)[0], for Len(bs) = calcsize(fmt)
unpack(fmt, bs) ==
    CASE fmt \in {"b", "h", "i", "l"} -> Signed(bs)
      [] fmt \in {"B", "H", "I", "L"} -> Unsigned(bs)
      [] fmt = "f" -> bs

\* struct.unpack('<' + fmt, self._fp.read(calcsize(fmt)))[0]: a short read is a
\* struct.error, and the bytes that were left are consumed
read_struct(r, fmt) ==
    IF r.err # "" THEN r
    ELSE IF r.pos + calcsize(fmt) > Len(stream)
         THEN [r EXCEPT !.pos = Len(stream), !.err = "struct.error"]
         ELSE [r EXCEPT !.pos = @ + calcsize(fmt),
                        !.out = Append(@, unpack(fmt, SubSeq(stream, r.pos + 1,
                                                             r.pos + calcsize(fmt))))]

read_int(r) == read_struct(r, "i")

read_short(r) == read_struct(r, "h")

read_ushort(r) == read_struct(r, "H")

read_float(r) == read_struct(r, "f")

read_byte(r) == read_struct(r, "b")

read_ubyte(r) == read_struct(r, "B")

\* struct.unpack('<' + 'f' * size, self._fp.read(4 * size)): a tuple of floats
read_vector(r, size) ==
    IF r.err # "" THEN r
    ELSE IF r.pos + 4 * size > Len(stream)
         THEN [r EXCEPT !.pos = Len(stream), !.err = "struct.error"]
         ELSE [r EXCEPT !.pos = @ + 4 * size,
                        !.out = Append(@, [i \in 1 .. size |->
                                              SubSeq(stream, r.pos + 4 * i - 3, r.pos + 4 * i)])]

read_vector_3d(r) == read_vector(r, 3)

read_vector_4d(r) == read_vector(r, 4)

\* self._fp.read(size): the bytes left, at most size of them
read_bytes(r, size) ==
    IF r.err # "" THEN r
    ELSE IF r.pos + size > Len(stream)
         THEN [r EXCEPT !.pos = Len(stream),
                        !.out = Append(@, SubSeq(stream, r.pos + 1, Len(stream)))]
         ELSE [r EXCEPT !.pos = @ + size,
                        !.out = Append(@, SubSeq(stream, r.pos + 1, r.pos + size))]

\* a read_rest that finds nothing left
read_nothing(r) == IF r.err # "" THEN r ELSE [r EXCEPT !.out = Append(@, <<>>)]

\* self._fp.read()
read_rest(r) ==
    IF r.err # "" THEN r
    ELSE [r EXCEPT !.pos = Len(stream),
                   !.out = Append(@, SubSeq(stream, r.pos + 1, Len(stream)))]

\* parse_flags(flag, max_flags): bit shift of flag, for shift = 0 .. max_flags - 1
\* (a negative flag is its two's complement, as Python's & has it)
parse_flags(flag, max_flags) ==
    [i \in 1 .. max_flags |->
        ((IF flag < 0 THEN flag + 2 ^ 16 ELSE flag) \div 2 ^ (i - 1)) % 2 = 1]

\* str(buffer, 'utf-16-le', errors='replace'), for text of the basic plane: an
\* odd last byte is replaced by U+FFFD
RECURSIVE decode_utf_16_le(_)
decode_utf_16_le(bs) ==
    IF bs = <<>> THEN <<>>
    ELSE IF Len(bs) = 1 THEN <<65533>>
         ELSE <<bs[1] + 256 * bs[2]>> \o decode_utf_16_le(SubSeq(bs, 3, Len(bs)))

\* str(buffer, 'utf-8', errors='replace'), for ASCII text: a byte that is not
\* ASCII is replaced by U+FFFD
decode_utf_8(bs) == [i \in DOMAIN bs |-> IF bs[i] < 128 THEN bs[i] ELSE 65533]

decode(bs, encoding) ==
    IF encoding = "utf-16-le" THEN decode_utf_16_le(bs) ELSE decode_utf_8(bs)

\* FileReadStream.read_ulong
read_ulong(r) == read_struct(r, "L")

\* FileReadStream.read_chars: struct.unpack('<{length}s', self._fp.read(length))[0]
read_chars(r, length) ==
    IF r.err # "" THEN r
    ELSE IF r.pos + length > Len(stream)
         THEN [r EXCEPT !.pos = Len(stream), !.err = "struct.error"]
         ELSE [r EXCEPT !.pos = @ + length,
                        !.out = Append(@, SubSeq(stream, r.pos + 1, r.pos + length))]

\* crop_byte_string(string, pattern): string.split(pattern)[0], for a pattern of
\* one byte
RECURSIVE crop_byte_string(_, _)
crop_byte_string(string, pattern) ==
    IF string = <<>> \/ Head(string) = pattern THEN <<>>
    ELSE <<Head(string)>> \o crop_byte_string(Tail(string), pattern)

(***************************************************************************)
(* io/vmd.py: VMDFileReadStream.                                           *)
(***************************************************************************)
\* bytes.decode('shift_jis', errors='replace'), for text of single bytes: ASCII
\* and the half width katakana 0xA1 .. 0xDF (U+FF61 ..); another byte is
\* replaced by U+FFFD
decode_shift_jis(bs) ==
    [i \in DOMAIN bs |->
        IF bs[i] < 128 THEN bs[i]
        ELSE IF bs[i] \in 161 .. 223 THEN bs[i] + 65216 ELSE 65533]

\* read_chars_cropped once the bytes are read
Cropped(r, decoded) ==
    IF r.err # "" THEN r
    ELSE [r EXCEPT !.out[Len(r.out)] =
                      IF decoded THEN decode_shift_jis(crop_byte_string(@, 0))
                      ELSE crop_byte_string(@, 0)]

\* VMDFileReadStream.read_chars_cropped(length, b'\x00', decode): decoded is
\* whether decode is 'shift_jis' (the default) and not None
read_chars_cropped(r, length, decoded) == Cropped(read_chars(r, length), decoded)

\* read_byte_vector once the bytes are read: each byte is a signed number
SignedBytes(r) ==
    IF r.err # "" THEN r
    ELSE [r EXCEPT !.out[Len(r.out)] = [i \in DOMAIN @ |-> Signed(<<@[i]>>)]]

\* VMDFileReadStream.read_byte_vector(length)
read_byte_vector(r, length) == SignedBytes(read_chars(r, length))

(***************************************************************************)
(* io/pmx.py: PMXFileReadStream.                                           *)
(***************************************************************************)
\* self._index_size_formats
index_size_formats == (1 :> "b") @@ (2 :> "h") @@ (4 :> "i")

\* the format letter as it is
same_letter(fmt) == fmt

\* str.upper, on a format letter
upper(fmt) == CASE fmt = "b" -> "B" [] fmt = "h" -> "H" [] fmt = "i" -> "I"

\* the entry of the log for one _read_index call; category names the caller
IndexRead(category, size, unsigned, pos, bytes, value, raised) ==
    [category |-> category, size |-> size, unsigned |-> unsigned, pos |-> pos,
     next |-> pos + Len(bytes), bytes |-> bytes, value |-> value, raised |-> raised]

\* the format _read_index unpacks with
index_format(size, unsigned) ==
    IF unsigned THEN upper(index_size_formats[size]) ELSE index_size_formats[size]

\* PMXFileReadStream._read_index(size, unsigned)
read_index(r, category, size, unsigned) ==
    IF r.err # "" THEN r
    ELSE IF size \notin DOMAIN index_size_formats
         THEN [r EXCEPT !.err = "KeyError",
                        !.reads = Append(@, IndexRead(category, size, unsigned, r.pos, <<>>,
                                                      0, "KeyError"))]
         ELSE IF r.pos + size > Len(stream)
              THEN [r EXCEPT !.pos = Len(stream),
                             !.err = "struct.error",
                             !.reads = Append(@, IndexRead(category, size, unsigned, r.pos,
                                                           SubSeq(stream, r.pos + 1, Len(stream)),
                                                           0, "struct.error"))]
              ELSE [r EXCEPT !.pos = @ + size,
                             !.out = Append(@, unpack(index_format(size, unsigned),
                                                      SubSeq(stream, r.pos + 1, r.pos + size))),
                             !.reads = Append(@, IndexRead(category, size, unsigned, r.pos,
                                                  SubSeq(stream, r.pos + 1, r.pos + size),
                                                  unpack(index_format(size, unsigned),
                                                         SubSeq(stream, r.pos + 1, r.pos + size)),
                                                  ""))]

read_vertex_index(r) == read_index(r, "vertex", header.vertex_index_size, TRUE)

read_bone_index(r) == read_index(r, "bone", header.bone_index_size, FALSE)

read_texture_index(r) == read_index(r, "texture", header.texture_index_size, FALSE)

read_morph_index(r) == read_index(r, "morph", header.morph_index_size, FALSE)

read_rigid_index(r) == read_index(r, "rigid", header.rigid_index_size, FALSE)

read_material_index(r) == read_index(r, "material", header.material_index_size, FALSE)

\* the second half of read_str: r has just read the length
StrOfLength(r) ==
    IF r.err # "" THEN r
    ELSE IF Last(r) < 0 \/ (r.pos + Last(r) > Len(stream))
         THEN [r EXCEPT !.pos = Len(stream), !.err = "struct.error",
                        !.out = SubSeq(@, 1, Len(@) - 1)]
         ELSE [r EXCEPT !.pos = @ + Last(r),
                        !.out = Append(SubSeq(@, 1, Len(@) - 1),
                                       decode(SubSeq(stream, r.pos + 1, r.pos + Last(r)),
                                              header.encoding))]

\* PMXFileReadStream.read_str
read_str(r) == StrOfLength(read_int(r))

\* the reads of a loader that follow one another unconditionally, by name
RECURSIVE ReadFields(_, _)
ReadField(r, field) ==
    CASE field = "int"            -> read_int(r)
      [] field = "short"          -> read_short(r)
      [] field = "ushort"         -> read_ushort(r)
      [] field = "float"          -> read_float(r)
      [] field = "byte"           -> read_byte(r)
      [] field = "ubyte"          -> read_ubyte(r)
      [] field = "vector_2"       -> read_vector(r, 2)
      [] field = "vector_3d"      -> read_vector_3d(r)
      [] field = "vector_4d"      -> read_vector_4d(r)
      [] field = "str"            -> read_str(r)
      [] field = "vertex_index"   -> read_vertex_index(r)
      [] field = "bone_index"     -> read_bone_index(r)
      [] field = "texture_index"  -> read_texture_index(r)
      [] field = "morph_index"    -> read_morph_index(r)
      [] field = "rigid_index"    -> read_rigid_index(r)
      [] field = "material_index" -> read_material_index(r)
      [] field = "ulong"          -> read_ulong(r)
      [] field = "vector_6"       -> read_vector(r, 6)
      [] field = "chars_15"       -> read_chars_cropped(r, 15, TRUE)
      [] field = "chars_20"       -> read_chars_cropped(r, 20, TRUE)
      [] field = "byte_vector_64" -> read_byte_vector(r, 64)

ReadFields(r, fields) ==
    IF fields = <<>> THEN r
    ELSE ReadFields(ReadField(r, Head(fields)), Tail(fields))

(***************************************************************************)
(* io/pmx.py: _load_header.                                                *)
(***************************************************************************)
\* b'PMX '
PMX_SIGNATURE == <<80, 77, 88, 32>>

\* 2.0 as a little endian float
PMX_VERSION == <<0, 0, 0, 64>>

\* a Header whose encoding is always the type's default
HeaderOfDefaultEncoding(out) ==
    [signature           |-> out[1],
     version             |-> out[2],
     encoding            |-> "utf-16-le",
     additional_uvs      |-> out[5],
     vertex_index_size   |-> out[6],
     texture_index_size  |-> out[7],
     material_index_size |-> out[8],
     bone_index_size     |-> out[9],
     morph_index_size    |-> out[10],
     rigid_index_size    |-> out[11]]

\* the Header of the values read: signature, version, header_byte, encoding_index,
\* additional_uvs and the six index sizes
Header(out) ==
    [signature           |-> out[1],
     version             |-> out[2],
     encoding            |-> IF out[4] = 0 THEN "utf-16-le" ELSE "utf-8",
     additional_uvs      |-> out[5],
     vertex_index_size   |-> out[6],
     texture_index_size  |-> out[7],
     material_index_size |-> out[8],
     bone_index_size     |-> out[9],
     morph_index_size    |-> out[10],
     rigid_index_size    |-> out[11]]

\* _load_header from header_byte on: the warning, then the encoding and the sizes
HeaderByte(r) ==
    IF r.err # "" THEN r
    ELSE ReadFields([r EXCEPT !.warned = (Last(r) # 8 \/ r.out[1][4] # PMX_SIGNATURE[4])],
                    <<"byte", "ubyte", "ubyte", "ubyte", "ubyte", "ubyte", "ubyte", "ubyte">>)

\* _load_header from the version on
HeaderVersion(r) ==
    IF r.err # "" THEN r
    ELSE IF Last(r) # PMX_VERSION THEN Raise(r, "Exception: unsupported version")
         ELSE HeaderByte(read_ubyte(r))

\* _load_header without the signature check
SignatureUnchecked(r) == HeaderVersion(read_float(r))

\* _load_header from the signature check on
HeaderSignature(r) ==
    IF Len(Last(r)) < 3 \/ SubSeq(Last(r), 1, 3) # SubSeq(PMX_SIGNATURE, 1, 3)
    THEN Raise(r, "Exception: invalid file")
    ELSE HeaderVersion(read_float(r))

\* _load_header
load_header(r) == HeaderSignature(read_bytes(r, 4))

(***************************************************************************)
(* io/pmx.py: the loaders of the sections.  A loader appends the values it *)
(* reads to r.out, in the order it reads them.                             *)
(***************************************************************************)
RECURSIVE Load(_, _)
RECURSIVE Loop(_, _, _, _)

\* output.append(loaded)
LoopAppend(r, load_fn, n, output) == Loop(r, load_fn, n, Append(output, r.out))

\* the n iterations left of the loop of _loop_load
Loop(r, load_fn, n, output) ==
    IF r.err # "" THEN r
    ELSE IF n <= 0 THEN [r EXCEPT !.out = output]
         ELSE LoopAppend(Load(load_fn, [r EXCEPT !.out = <<>>]), load_fn, n - 1, output)

\* _loop_load once the count is read: num_loops = count // step
LoopCount(r, load_fn, step) ==
    IF r.err # "" THEN r ELSE Loop(r, load_fn, Last(r) \div step, <<>>)

\* the list a loop made becomes one value after the values read before it
Nested(out, r) == IF r.err # "" THEN r ELSE [r EXCEPT !.out = Append(out, r.out)]

\* _loop_load(fs, load_fn, output, step)
loop_load(r, load_fn, step) ==
    Nested(r.out, LoopCount(read_int([r EXCEPT !.out = <<>>]), load_fn, step))

\* pmx.BoneWeightType
BDEF1 == 0
BDEF2 == 1
BDEF4 == 2
SDEF == 3

\* _load_bone_weight once the type is read (_load_sdef_bone_weight included)
BoneWeightOfType(r) ==
    IF r.err # "" THEN r
    ELSE ReadFields(r,
            CASE Last(r) = BDEF1 -> <<"bone_index">>
              [] Last(r) = BDEF2 -> <<"bone_index", "bone_index", "float">>
              [] Last(r) = BDEF4 -> <<"bone_index", "bone_index", "bone_index", "bone_index",
                                      "vector_4d">>
              [] Last(r) = SDEF  -> <<"bone_index", "bone_index", "float", "vector_3d",
                                      "vector_3d", "vector_3d">>
              [] OTHER -> <<>>)

load_bone_weight(r) == BoneWeightOfType(read_ubyte(r))

load_vertex(r) ==
    read_float(load_bone_weight(
        ReadFields(r, <<"vector_3d", "vector_3d", "vector_2">>
                      \o [i \in 1 .. header.additional_uvs |-> "vector_4d"])))

load_face(r) == ReadFields(r, <<"vertex_index", "vertex_index", "vertex_index">>)

\* _load_texture: the path as it is in the file
load_texture(r) == read_str(r)

\* _load_material from the toon texture on
MaterialToon(r) ==
    IF r.err # "" THEN r
    ELSE ReadFields(r, <<IF Last(r) = 1 THEN "byte" ELSE "texture_index", "str", "int">>)

load_material(r) ==
    MaterialToon(ReadFields(r, <<"str", "str", "vector_4d", "vector_3d", "float", "vector_3d",
                                 "ubyte", "vector_4d", "float", "texture_index",
                                 "texture_index", "ubyte", "byte">>))

\* _load_ik_link once has_rotation_limit is read
IKLinkLimits(r) ==
    IF r.err # "" THEN r
    ELSE ReadFields(r, IF Last(r) = 1 THEN <<"vector_3d", "vector_3d">> ELSE <<>>)

load_ik_link(r) == IKLinkLimits(ReadFields(r, <<"bone_index", "byte">>))

load_ik(r) == loop_load(ReadFields(r, <<"bone_index", "int", "float">>), "ik_link", 1)

\* the attributes _load_bone sets from the parsed flags
BoneFlags(flags) ==
    [display_connection_is_index |-> parse_flags(flags, 14)[1],
     is_rotation                 |-> parse_flags(flags, 14)[2],
     is_movable                  |-> parse_flags(flags, 14)[3],
     is_visible                  |-> parse_flags(flags, 14)[4],
     is_controllable             |-> parse_flags(flags, 14)[5],
     is_ik                       |-> parse_flags(flags, 14)[6],
     has_additional_location     |-> parse_flags(flags, 14)[9],
     has_additional_rotation     |-> parse_flags(flags, 14)[10],
     has_axis_vector             |-> parse_flags(flags, 14)[11],
     has_local_axis              |-> parse_flags(flags, 14)[12],
     transform_after_physics     |-> parse_flags(flags, 14)[13],
     outside_parent_update       |-> parse_flags(flags, 14)[13]]

\* the reads of _load_bone that the flags decide, up to the IK block
BoneFields(f) ==
    (IF f.display_connection_is_index THEN <<"bone_index">> ELSE <<"vector_3d">>)
    \o (IF f.has_additional_location \/ f.has_additional_rotation
        THEN <<"bone_index", "float">> ELSE <<>>)
    \o (IF f.has_axis_vector THEN <<"vector_3d">> ELSE <<>>)
    \o (IF f.has_local_axis THEN <<"vector_3d", "vector_3d">> ELSE <<>>)
    \o (IF f.outside_parent_update THEN <<"int">> ELSE <<>>)

\* _load_bone: the IK block
BoneIK(r, f) == IF r.err = "" /\ f.is_ik THEN load_ik(r) ELSE r

\* _load_bone once the flags are read
BoneOfFlags(r) ==
    IF r.err # "" THEN r
    ELSE BoneIK(ReadFields(r, BoneFields(BoneFlags(Last(r)))), BoneFlags(Last(r)))

load_bone(r) ==
    BoneOfFlags(ReadFields(r, <<"str", "str", "vector_3d", "bone_index", "int", "short">>))

load_group_morph_offset(r) == ReadFields(r, <<"morph_index", "float">>)

load_vertex_morph_offset(r) == ReadFields(r, <<"vertex_index", "vector_3d">>)

\* 0.0 and -0.0
IsZero(float) == float \in {<<0, 0, 0, 0>>, <<0, 0, 0, 128>>}

\* _load_bone_morph_offset: a rotation of zeros becomes (0.0, 0.0, 0.0, 1.0)
BoneMorphRotation(r) ==
    IF r.err # "" THEN r
    ELSE IF \A i \in 1 .. 4 : IsZero(Last(r)[i])
         THEN [r EXCEPT !.out[Len(r.out)] =
                            <<<<0, 0, 0, 0>>, <<0, 0, 0, 0>>, <<0, 0, 0, 0>>, <<0, 0, 128, 63>>>>]
         ELSE r

load_bone_morph_offset(r) ==
    BoneMorphRotation(ReadFields(r, <<"bone_index", "vector_3d", "vector_4d">>))

load_uv_morph_offset(r) == ReadFields(r, <<"vertex_index", "vector_4d">>)

load_material_morph_offset(r) ==
    ReadFields(r, <<"material_index", "byte", "vector_4d", "vector_3d", "float", "vector_3d",
                    "vector_4d", "float", "vector_4d", "vector_4d", "vector_4d">>)

\* the dict of _load_morph: type_index -> loader of its offsets
offset_load_fn ==
    [type_index \in 0 .. 8 |->
        CASE type_index = 0 -> "group_morph_offset"
          [] type_index = 1 -> "vertex_morph_offset"
          [] type_index = 2 -> "bone_morph_offset"
          [] type_index \in 3 .. 7 -> "uv_morph_offset"
          [] type_index = 8 -> "material_morph_offset"]

\* _load_morph once type_index is read
MorphOffsets(r) ==
    IF r.err # "" THEN r
    ELSE IF Last(r) \notin DOMAIN offset_load_fn THEN Raise(r, "KeyError")
         ELSE loop_load(r, offset_load_fn[Last(r)], 1)

load_morph(r) == MorphOffsets(ReadFields(r, <<"str", "str", "byte", "byte">>))

RECURSIVE DisplayIndices(_, _, _)
\* _load_display_frame once a display_type is read: the index, and the entries left
DisplayIndex(r, n, indices) ==
    IF r.err # "" THEN r
    ELSE IF r.out[1] \notin {0, 1} THEN Raise(r, "Exception: invalid value")
         ELSE DisplayIndices(IF r.out[1] = 0 THEN read_bone_index(r) ELSE read_morph_index(r),
                             n, indices)

\* the n entries left of the loop of _load_display_frame; r.out holds the entry
\* read last
DisplayIndices(r, n, indices) ==
    IF r.err # "" THEN r
    ELSE IF n <= 0 THEN [r EXCEPT !.out = IF r.out = <<>> THEN indices
                                          ELSE Append(indices, r.out)]
         ELSE DisplayIndex(read_ubyte([r EXCEPT !.out = <<>>]), n - 1,
                           IF r.out = <<>> THEN indices ELSE Append(indices, r.out))

\* _load_display_frame once num_data is read
DisplayData(r) ==
    IF r.err # "" THEN r
    ELSE Nested(SubSeq(r.out, 1, Len(r.out) - 1),
                DisplayIndices([r EXCEPT !.out = <<>>], Last(r), <<>>))

load_display_frame(r) == DisplayData(ReadFields(r, <<"str", "str", "ubyte", "int">>))

load_rigid(r) ==
    ReadFields(r, <<"str", "str", "bone_index", "byte", "ushort", "byte", "vector_3d",
                    "vector_3d", "vector_3d", "float", "float", "float", "float", "float",
                    "byte">>)

\* (0, 0, 0): a vector that equals the one read from twelve zero bytes
ZeroVector3D == <<<<0, 0, 0, 0>>, <<0, 0, 0, 0>>, <<0, 0, 0, 0>>>>

\* the eight vectors of a joint, those not read being (0, 0, 0)
RECURSIVE JointDefaults(_)
JointDefaults(out) == IF Len(out) >= 13 THEN out ELSE JointDefaults(Append(out, ZeroVector3D))

\* an except clause that never raises again
JointExceptTolerant(r) ==
    IF r.err # "struct.error" THEN r ELSE [r EXCEPT !.err = "", !.out = JointDefaults(r.out)]

\* _load_joint: the except clause.  A struct.error is raised again unless both
\* rigid indices were read and neither was -1.
JointExcept(r) ==
    IF r.err # "struct.error" THEN r
    ELSE IF Len(r.out) < 5 \/ r.out[4] = -1 \/ r.out[5] = -1 THEN r
         ELSE [r EXCEPT !.err = "", !.out = JointDefaults(r.out)]

load_joint(r) ==
    JointExcept(ReadFields(r, <<"str", "str", "byte", "rigid_index", "rigid_index",
                                "vector_3d", "vector_3d", "vector_3d", "vector_3d",
                                "vector_3d", "vector_3d", "vector_3d", "vector_3d">>))

(***************************************************************************)
(* io/vmd.py: the loaders of the motion file.                              *)
(***************************************************************************)
\* _loop_load(fs, load_fn): num_loops = fs.read_ulong()
vmd_loop_load(r, load_fn) ==
    Nested(r.out, LoopCount(read_ulong([r EXCEPT !.out = <<>>]), load_fn, 1))

\* _load_bone_frame_key: a rotation without a nonzero component becomes
\* (0.0, 0.0, 0.0, 1.0)
BoneKeyRotation(r) ==
    IF r.err # "" THEN r
    ELSE IF \A i \in 1 .. 4 : IsZero(Last(r)[i])
         THEN [r EXCEPT !.out[Len(r.out)] =
                            <<<<0, 0, 0, 0>>, <<0, 0, 0, 0>>, <<0, 0, 0, 0>>, <<0, 0, 128, 63>>>>]
         ELSE r

\* _load_bone_frame_key after the name its load_fn reads (_vmd_dict_load_fn)
load_bone_frame_key(r) ==
    ReadFields(BoneKeyRotation(ReadFields(r, <<"chars_15", "ulong", "vector_3d", "vector_4d">>)),
               <<"byte_vector_64">>)

\* _load_shape_key_frame_key after the name its load_fn reads
load_shape_key_frame_key(r) == ReadFields(r, <<"chars_15", "ulong", "float">>)

\* perspective = fs.read_byte() == 0
CameraPerspective(r) == IF r.err # "" THEN r ELSE [r EXCEPT !.out[Len(r.out)] = (@ = 0)]

\* _load_carema_key_frame_key
load_carema_key_frame_key(r) ==
    CameraPerspective(ReadFields(r, <<"ulong", "float", "vector_3d", "vector_3d", "vector_6",
                                      "ulong", "byte">>))

\* _load_lamp_key_frame_key
load_lamp_key_frame_key(r) == ReadFields(r, <<"ulong", "vector_3d", "vector_3d">>)

\* distance = 10000 - fs.read_float() * 10000, of the float read
ShadowDistance(r) ==
    IF r.err # "" THEN r
    ELSE [r EXCEPT !.out[Len(r.out)] = [kind |-> "10000 - x * 10000", x |-> @]]

\* _load_self_shadow_frame_key
load_self_shadow_frame_key(r) == ShadowDistance(ReadFields(r, <<"ulong", "byte", "float">>))

\* _load_ik_state
load_ik_state(r) == ReadFields(r, <<"chars_20", "byte">>)

\* _load_property_frame_key
load_property_frame_key(r) == vmd_loop_load(ReadFields(r, <<"ulong", "byte">>), "ik_state")

\* load_fn(fs), by the loader's name
Load(load_fn, r) ==
    CASE load_fn = "vertex"                -> load_vertex(r)
      [] load_fn = "face"                  -> load_face(r)
      [] load_fn = "texture"               -> load_texture(r)
      [] load_fn = "material"              -> load_material(r)
      [] load_fn = "bone"                  -> load_bone(r)
      [] load_fn = "ik_link"               -> load_ik_link(r)
      [] load_fn = "morph"                 -> load_morph(r)
      [] load_fn = "group_morph_offset"    -> load_group_morph_offset(r)
      [] load_fn = "vertex_morph_offset"   -> load_vertex_morph_offset(r)
      [] load_fn = "bone_morph_offset"     -> load_bone_morph_offset(r)
      [] load_fn = "uv_morph_offset"       -> load_uv_morph_offset(r)
      [] load_fn = "material_morph_offset" -> load_material_morph_offset(r)
      [] load_fn = "display_frame"         -> load_display_frame(r)
      [] load_fn = "rigid"                 -> load_rigid(r)
      [] load_fn = "joint"                 -> load_joint(r)
      [] load_fn = "bone_frame_key"        -> load_bone_frame_key(r)
      [] load_fn = "shape_key_frame_key"   -> load_shape_key_frame_key(r)
      [] load_fn = "carema_key_frame_key"  -> load_carema_key_frame_key(r)
      [] load_fn = "lamp_key_frame_key"    -> load_lamp_key_frame_key(r)
      [] load_fn = "self_shadow_frame_key" -> load_self_shadow_frame_key(r)
      [] load_fn = "property_frame_key"    -> load_property_frame_key(r)
      [] load_fn = "ik_state"              -> load_ik_state(r)

(***************************************************************************)
(* The model files decoded here.  A file is written from a description:    *)
(* the header's fields, the index size of one category (the other          *)
(* categories share another size), the number of elements of every         *)
(* section, whether the indices are all-ones or zero, and the bytes after  *)
(* the last section.                                                       *)
(***************************************************************************)
\* the elements of a section
MaxElements == 1
\* the bytes after the joint section
MaxTrailing == 1

Categories == {"vertex", "texture", "material", "bone", "morph", "rigid"}

\* b'PMX ', b'PMX' with another fourth byte, and another third byte
Signatures == {PMX_SIGNATURE, <<80, 77, 88, 0>>, <<80, 77, 89, 32>>}

\* 2.0 and 2.1 as little endian floats
Versions == {PMX_VERSION, <<102, 102, 6, 64>>}

\* the bytes a truncated file lacks at its end
MaxCut == 120

\* files that end where the writer ended them
WholeFiles ==
    [signature      : Signatures,
     version        : Versions,
     header_byte    : {8, 7},
     encoding_index : {0, 1, 2},
     category       : Categories,
     size           : {1, 2, 3, 4},
     ones           : BOOLEAN,
     elements       : 0 .. MaxElements,
     trailing       : 0 .. MaxTrailing,
     cut            : {0},
     bone_flags     : {513}]

\* files of a sound header that end early: the last bytes of the joint section
\* are missing
TruncatedFiles ==
    [signature      : {PMX_SIGNATURE},
     version        : {PMX_VERSION},
     header_byte    : {8},
     encoding_index : {0, 1},
     category       : {"rigid"},
     size           : {1, 2, 4},
     ones           : BOOLEAN,
     elements       : 1 .. MaxElements,
     trailing       : {0},
     cut            : 1 .. MaxCut,
     bone_flags     : {513}]

\* the flag fields of the bones written: no flag, transform after physics
\* (0x1000), outside parent (0x2000), both, and 0x0201 (the display connection
\* is a bone, and the bone follows another bone's rotation)
BoneFlagFields == {0, 4096, 8192, 12288, 513}

\* files of a sound header whose bones have one of the flag fields above
FlaggedFiles ==
    [signature      : {PMX_SIGNATURE},
     version        : {PMX_VERSION},
     header_byte    : {8},
     encoding_index : {0, 1},
     category       : {"bone"},
     size           : {1, 2, 4},
     ones           : BOOLEAN,
     elements       : 1 .. MaxElements,
     trailing       : {0},
     cut            : {0},
     bone_flags     : BoneFlagFields]

PmxFiles == WholeFiles \cup TruncatedFiles \cup FlaggedFiles

\* the index size a file declares for a category
SizeIn(f, category) ==
    IF category = f.category THEN f.size ELSE IF f.size = 1 THEN 2 ELSE 1

\* n zero bytes
Zeros(n) == [i \in 1 .. n |-> 0]

\* a count, as a little endian int
WriteInt(n) == <<n % 256, (n \div 256) % 256, 0, 0>>

\* an index of a category: all-ones bytes (the largest positive number for a
\* vertex index of four bytes, TLC's integers ending at 2^31 - 1), or zero
WriteIndex(f, category) ==
    [i \in 1 .. SizeIn(f, category) |->
        IF ~f.ones THEN 0
        ELSE IF category = "vertex" /\ i = 4 THEN 127 ELSE 255]

\* the text "a" in the file's encoding, after its length in bytes
WriteStr(f) == IF f.encoding_index = 0 THEN WriteInt(2) \o <<97, 0>> ELSE WriteInt(1) \o <<97>>

WriteHeader(f) ==
    f.signature \o f.version \o <<f.header_byte, f.encoding_index, 1>>
    \o <<SizeIn(f, "vertex"), SizeIn(f, "texture"), SizeIn(f, "material"),
         SizeIn(f, "bone"), SizeIn(f, "morph"), SizeIn(f, "rigid")>>

\* a vertex with one additional uv and a BDEF1 weight
WriteVertex(f) == Zeros(12 + 12 + 8 + 16) \o <<BDEF1>> \o WriteIndex(f, "bone") \o Zeros(4)

WriteFace(f) == WriteIndex(f, "vertex") \o WriteIndex(f, "vertex") \o WriteIndex(f, "vertex")

\* a material with a toon texture of its own
WriteMaterial(f) ==
    WriteStr(f) \o WriteStr(f) \o Zeros(16 + 12 + 4 + 12) \o <<0>> \o Zeros(16 + 4)
    \o WriteIndex(f, "texture") \o WriteIndex(f, "texture") \o <<0, 0>>
    \o WriteIndex(f, "texture") \o WriteStr(f) \o WriteInt(3)

\* bit k of a flag field
Bit(flags, k) == (flags \div 2 ^ k) % 2 = 1

\* a bone, as the format lays it out after its flag field: the display
\* connection is a bone index with bit 0 and a vector without, a bone index and
\* a rate follow with bit 8 or 9, and the key of the outside parent follows with
\* bit 13 (bit 12, transform after physics, has no data)
WriteBone(f) ==
    WriteStr(f) \o WriteStr(f) \o Zeros(12) \o WriteIndex(f, "bone") \o WriteInt(0)
    \o <<f.bone_flags % 256, f.bone_flags \div 256>>
    \o (IF Bit(f.bone_flags, 0) THEN WriteIndex(f, "bone") ELSE Zeros(12))
    \o (IF Bit(f.bone_flags, 8) \/ Bit(f.bone_flags, 9)
        THEN WriteIndex(f, "bone") \o Zeros(4) ELSE <<>>)
    \o (IF Bit(f.bone_flags, 13) THEN WriteInt(7) ELSE <<>>)

\* a material morph with one offset
WriteMorph(f) ==
    WriteStr(f) \o WriteStr(f) \o <<0, 8>> \o WriteInt(1)
    \o WriteIndex(f, "material") \o <<0>> \o Zeros(16 + 12 + 4 + 12 + 16 + 4 + 16 + 16 + 16)

\* a display frame of one bone and one morph
WriteDisplayFrame(f) ==
    WriteStr(f) \o WriteStr(f) \o <<1>> \o WriteInt(2)
    \o <<0>> \o WriteIndex(f, "bone") \o <<1>> \o WriteIndex(f, "morph")

WriteRigid(f) ==
    WriteStr(f) \o WriteStr(f) \o WriteIndex(f, "bone") \o <<0, 0, 0, 0>>
    \o Zeros(12 + 12 + 12 + 4 * 5) \o <<0>>

\* n floats 1.0
Ones(n) == [i \in 1 .. 4 * n |-> <<0, 0, 128, 63>>[((i - 1) % 4) + 1]]

\* a joint: its eight vectors are (1.0, 1.0, 1.0)
WriteJoint(f) ==
    WriteStr(f) \o WriteStr(f) \o <<0>> \o WriteIndex(f, "rigid") \o WriteIndex(f, "rigid")
    \o Ones(3 * 8)

\* n copies of an element
RECURSIVE Repeat(_, _)
Repeat(bytes, n) == IF n = 0 THEN <<>> ELSE bytes \o Repeat(bytes, n - 1)

\* a section: the count (of vertex indices for the faces), then the elements
WriteSection(f, element, step) ==
    WriteInt(f.elements * step) \o Repeat(element, f.elements)

WriteWhole(f) ==
    WriteHeader(f)
    \o WriteStr(f) \o WriteStr(f) \o WriteStr(f) \o WriteStr(f)
    \o WriteSection(f, WriteVertex(f), 1)
    \o WriteSection(f, WriteFace(f), 3)
    \o WriteSection(f, WriteStr(f), 1)
    \o WriteSection(f, WriteMaterial(f), 1)
    \o WriteSection(f, WriteBone(f), 1)
    \o WriteSection(f, WriteMorph(f), 1)
    \o WriteSection(f, WriteDisplayFrame(f), 1)
    \o WriteSection(f, WriteRigid(f), 1)
    \o WriteSection(f, WriteJoint(f), 1)
    \o Zeros(f.trailing)

\* the bytes of a file: all that was written, but for the bytes cut off its end
Truncate(bytes, cut) == SubSeq(bytes, 1, Len(bytes) - cut)

WriteFile(f) == Truncate(WriteWhole(f), f.cut)

(***************************************************************************)
(* The model decoder's operations: load(path), section by section.         *)
(***************************************************************************)
\* the file is open, nothing is read
InitPmx ==
    /\ pmx_file \in PmxFiles
    /\ stream = WriteFile(pmx_file)
    /\ fs_pos = 0
    /\ header = <<>>
    /\ model = <<>>
    /\ index_reads = <<>>
    /\ warned = FALSE
    /\ pmx_error = ""
    /\ ppc = "header"
    /\ MotionIdle
    /\ BoneIdle
    /\ VmdIdle
    /\ ConvertIdle
    /\ IkIdle
    /\ BezierIdle
    /\ GrantIdle

\* a part of load() has run and left the reader r: load() goes on with section
\* next, or ends with the exception r holds
Proceed(r, next) ==
    /\ fs_pos' = r.pos
    /\ index_reads' = r.reads
    /\ pmx_error' = r.err
    /\ ppc' = IF r.err = "" THEN next ELSE "error"

\* header = _load_header(fs); fs.header = header
LoadHeader ==
    /\ ppc = "header"
    /\ \E r \in {load_header(Reader(fs_pos, index_reads))} :
          /\ Proceed(r, "model")
          /\ header' = IF r.err = "" THEN Header(r.out) ELSE header
          /\ warned' = r.warned
    /\ UNCHANGED <<pmx_file, stream, model>>
    /\ UNCHANGED notPmx

\* _load_model: name, name_en, comment, comment_en
LoadModelInfo ==
    /\ ppc = "model"
    /\ \E r \in {ReadFields(Reader(fs_pos, index_reads), <<"str", "str", "str", "str">>)} :
          /\ Proceed(r, "vertex")
          /\ model' = IF r.err = "" THEN [info |-> r.out] ELSE model
    /\ UNCHANGED <<pmx_file, stream, header, warned>>
    /\ UNCHANGED notPmx

\* the display frames pmx.Model.__init__ makes: Root / Root and 表情 / Facial,
\* both special and with no indices
root_display == <<<<82, 111, 111, 116>>, <<82, 111, 111, 116>>, 1, <<>>>>

face_display == <<<<34920, 24773>>, <<70, 97, 99, 105, 97, 108>>, 1, <<>>>>

\* pmx.Model.__init__: the list of a section in a new model
NewModelList(section) == IF section = "display" THEN <<root_display, face_display>> ELSE <<>>

\* _load_model: _loop_load(fs, load_fn, model.<section>, step), which appends
\* to the list the model holds
LoadSection(section, load_fn, step, next) ==
    /\ ppc = section
    /\ \E r \in {loop_load(Reader(fs_pos, index_reads), load_fn, step)} :
          /\ Proceed(r, next)
          /\ model' = IF r.err = "" THEN model @@ (section :> NewModelList(section) \o r.out[1])
                      ELSE model
    /\ UNCHANGED <<pmx_file, stream, header, warned>>
    /\ UNCHANGED notPmx

LoadVertex == LoadSection("vertex", "vertex", 1, "face")

LoadFace == LoadSection("face", "face", 3, "texture")

LoadTexture == LoadSection("texture", "texture", 1, "material")

LoadMaterial == LoadSection("material", "material", 1, "bone")

LoadBone == LoadSection("bone", "bone", 1, "morph")

LoadMorph == LoadSection("morph", "morph", 1, "display")

LoadDisplay == LoadSection("display", "display_frame", 1, "rigid")

LoadRigid == LoadSection("rigid", "rigid", 1, "joint")

LoadJoint == LoadSection("joint", "joint", 1, "rest")

\* _load_model: the check of fs.read_rest(); load() returns the model or raises
LoadRest ==
    /\ ppc = "rest"
    /\ \E r \in {read_rest(Reader(fs_pos, index_reads))} :
          Proceed(IF Last(r) # <<>> THEN Raise(r, "Exception: remaining bytes") ELSE r, "done")
    /\ UNCHANGED <<pmx_file, stream, header, model, warned>>
    /\ UNCHANGED notPmx

NextPmx ==
    \/ LoadHeader
    \/ LoadModelInfo
    \/ LoadVertex
    \/ LoadFace
    \/ LoadTexture
    \/ LoadMaterial
    \/ LoadBone
    \/ LoadMorph
    \/ LoadDisplay
    \/ LoadRigid
    \/ LoadJoint
    \/ LoadRest

SpecPmx == InitPmx /\ [][NextPmx]_vars

(***************************************************************************)
(* The motion files decoded here.  A file is written from a description:   *)
(* its signature, the number of keys of each of the bone, shape key,       *)
(* camera and lamp sections, the numbers of self shadow and property keys, *)
(* and the number of bytes missing at its end.                             *)
(***************************************************************************)
\* the keys of a section
MaxVmdKeys == 1
\* the bytes a truncated motion file lacks at its end
MaxVmdCut == 340

\* vmd.VMD_SIGNATURE: b'Vocaloid Motion Data 0002'
VMD_SIGNATURE ==
    <<86, 111, 99, 97, 108, 111, 105, 100, 32, 77, 111, 116, 105, 111, 110, 32,
      68, 97, 116, 97, 32, 48, 48, 48, 50>>

\* b'Vocaloid Motion Data file', the signature of the older format
OldSignature ==
    <<86, 111, 99, 97, 108, 111, 105, 100, 32, 77, 111, 116, 105, 111, 110, 32,
      68, 97, 116, 97, 32, 102, 105, 108, 101>>

\* text in a field of fixed length, padded with zero bytes
Padded(bytes, length) == bytes \o Zeros(length - Len(bytes))

WriteVmdHeader(f) == Padded(f.signature, 30) \o Padded(<<97>>, 20)

\* a bone key: name, frame number, location, a rotation of zeros, interpolation
WriteBoneKey == Padded(<<97>>, 15) \o WriteInt(1) \o Ones(3) \o Zeros(16) \o [i \in 1 .. 64 |-> 20]

WriteShapeKey == Padded(<<98>>, 15) \o WriteInt(1) \o Ones(1)

WriteCameraKey == WriteInt(1) \o Ones(1 + 3 + 3 + 6) \o WriteInt(30) \o <<0>>

WriteLampKey == WriteInt(1) \o Ones(3 + 3)

WriteSelfShadowKey == WriteInt(1) \o <<1>> \o Ones(1)

\* a property key with one IK state
WritePropertyKey == WriteInt(1) \o <<1>> \o WriteInt(1) \o Padded(<<99>>, 20) \o <<1>>

\* a section: the count, then the keys
WriteKeys(key, n) == WriteInt(n) \o Repeat(key, n)

\* the four sections every file has
WriteMandatory(f) ==
    WriteKeys(WriteBoneKey, f.keys) \o WriteKeys(WriteShapeKey, f.keys)
    \o WriteKeys(WriteCameraKey, f.keys) \o WriteKeys(WriteLampKey, f.keys)

WriteSelfShadow(f) == WriteKeys(WriteSelfShadowKey, f.self_shadow)

WriteProperty(f) == WriteKeys(WritePropertyKey, f.property)

WriteVmdWhole(f) ==
    WriteVmdHeader(f) \o WriteMandatory(f) \o WriteSelfShadow(f) \o WriteProperty(f)

WriteVmd(f) == Truncate(WriteVmdWhole(f), f.cut)

\* the files: whole or truncated ones of the literal signature, and whole ones
\* of another signature
VmdFiles ==
    {f \in [signature : {VMD_SIGNATURE}, keys : 0 .. MaxVmdKeys, self_shadow : 0 .. MaxVmdKeys,
            property : 0 .. MaxVmdKeys, cut : 0 .. MaxVmdCut] :
        f.cut <= Len(WriteVmdWhole(f))}
    \cup [signature : {OldSignature, <<>>}, keys : 0 .. MaxVmdKeys, self_shadow : 0 .. MaxVmdKeys,
          property : 0 .. MaxVmdKeys, cut : {0}]

(***************************************************************************)
(* The motion decoder's operations: load(path), section by section.        *)
(***************************************************************************)
\* vmd.VMDFile()
VMDFile ==
    [header                |-> None,
     bone_animation        |-> <<>>,
     shape_key_animation   |-> <<>>,
     camera_animation      |-> <<>>,
     lamp_animation        |-> <<>>,
     self_shadow_animation |-> <<>>,
     property_animation    |-> <<>>]

\* the file is open, nothing is read
InitVmd ==
    /\ vmd_desc \in VmdFiles
    /\ stream = WriteVmd(vmd_desc)
    /\ fs_pos = 0
    /\ vmd_file = VMDFile
    /\ vmd_error = ""
    /\ vpc = "header"
    /\ pmx_file = <<>>
    /\ header = <<>>
    /\ model = <<>>
    /\ index_reads = <<>>
    /\ warned = FALSE
    /\ pmx_error = ""
    /\ ppc = "idle"
    /\ MotionIdle
    /\ BoneIdle
    /\ ConvertIdle
    /\ IkIdle
    /\ BezierIdle
    /\ GrantIdle

\* a part of _load_file has run and left the reader r: it goes on with section
\* next, or load() ends with the exception r holds
VmdProceed(r, next) ==
    /\ fs_pos' = r.pos
    /\ vmd_error' = r.err
    /\ vpc' = IF r.err = "" THEN next ELSE "error"

\* a _load_header that takes any signature
VmdSignatureUnchecked(r) == r

\* _load_header once the signature is read
VmdSignature(r) ==
    IF r.err # "" THEN r
    ELSE IF Last(r) # VMD_SIGNATURE THEN Raise(r, "Exception: invalid file") ELSE r

\* _load_header
vmd_load_header(r) ==
    read_chars_cropped(VmdSignature(read_chars_cropped(r, 30, FALSE)), 20, TRUE)

\* the keys of a list of <<name, key>> that have the name, in the list's order
RECURSIVE Named(_, _)
Named(list, name) ==
    IF list = <<>> THEN <<>>
    ELSE (IF Head(list)[1] = name THEN <<Tail(Head(list))>> ELSE <<>>) \o Named(Tail(list), name)

\* container[name].append(frame_key), for the keys in file order
vmd_dict(list) == [name \in {list[i][1] : i \in DOMAIN list} |-> Named(list, name)]

\* vmd_file.header = _load_header(fs)
VmdLoadHeader ==
    /\ vpc = "header"
    /\ \E r \in {vmd_load_header(Reader(fs_pos, <<>>))} :
          /\ VmdProceed(r, "bone_animation")
          /\ vmd_file' = IF r.err # "" THEN vmd_file
                         ELSE [vmd_file EXCEPT !.header =
                                  [signature |-> r.out[1], model_name |-> r.out[2]]]
    /\ UNCHANGED vmd_desc
    /\ UNCHANGED notVmd

\* vmd_file.<section> = _load_<section>(fs), for the sections kept by name
VmdLoadDict(section, load_fn, next) ==
    /\ vpc = section
    /\ \E r \in {vmd_loop_load(Reader(fs_pos, <<>>), load_fn)} :
          /\ VmdProceed(r, next)
          /\ vmd_file' = IF r.err # "" THEN vmd_file
                         ELSE [vmd_file EXCEPT ![section] = vmd_dict(r.out[1])]
    /\ UNCHANGED vmd_desc
    /\ UNCHANGED notVmd

\* vmd_file.<section> = _load_<section>(fs), for the sections kept as lists
VmdLoadList(section, load_fn, next) ==
    /\ vpc = section
    /\ \E r \in {vmd_loop_load(Reader(fs_pos, <<>>), load_fn)} :
          /\ VmdProceed(r, next)
          /\ vmd_file' = IF r.err # "" THEN vmd_file ELSE [vmd_file EXCEPT ![section] = r.out[1]]
    /\ UNCHANGED vmd_desc
    /\ UNCHANGED notVmd

VmdLoadBone == VmdLoadDict("bone_animation", "bone_frame_key", "shape_key_animation")

VmdLoadShapeKey == VmdLoadDict("shape_key_animation", "shape_key_frame_key", "camera_animation")

VmdLoadCamera == VmdLoadList("camera_animation", "carema_key_frame_key", "lamp_animation")

VmdLoadLamp == VmdLoadList("lamp_animation", "lamp_key_frame_key", "self_shadow_animation")

\* an except clause that passes over nothing
VmdExceptRaise(r) == r

\* the except clauses of _load_file: a struct.error that says 'unpack requires a
\* buffer of', as that of a short read does, is passed over
VmdExcept(r) == IF r.err = "struct.error" THEN [r EXCEPT !.err = ""] ELSE r

\* the try block of _load_file: r1 is the reader after the self shadow
\* section, r2 after the property section that follows if r1 holds no exception
VmdTry(r1, r2) ==
    /\ VmdProceed(VmdExcept(r2), "done")
    /\ vmd_file' = [vmd_file EXCEPT
                       !.self_shadow_animation = IF r1.err = "" THEN r1.out[1] ELSE @,
                       !.property_animation    = IF r2.err = "" THEN r2.out[1] ELSE @]

VmdLoadOptional ==
    /\ vpc = "self_shadow_animation"
    /\ \E r1 \in {vmd_loop_load(Reader(fs_pos, <<>>), "self_shadow_frame_key")} :
          \E r2 \in {vmd_loop_load([r1 EXCEPT !.out = <<>>], "property_frame_key")} :
              VmdTry(r1, r2)
    /\ UNCHANGED vmd_desc
    /\ UNCHANGED notVmd

NextVmd ==
    \/ VmdLoadHeader
    \/ VmdLoadBone
    \/ VmdLoadShapeKey
    \/ VmdLoadCamera
    \/ VmdLoadLamp
    \/ VmdLoadOptional

SpecVmd == InitVmd /\ [][NextVmd]_vars

(***************************************************************************)
(* Properties of the model decoder.                                        *)
(***************************************************************************)
\* the bytes of the header, as the file has them
SignatureBytes == SubSeq(stream, 1, 4)

VersionBytes == SubSeq(stream, 5, 8)

MarkerByte == stream[9]

EncodingByte == stream[10]

\* the index size the file declares for a category: bytes 12 .. 17
DeclaredSize(category) ==
    CASE category = "vertex"   -> stream[12]
      [] category = "texture"  -> stream[13]
      [] category = "material" -> stream[14]
      [] category = "bone"     -> stream[15]
      [] category = "morph"    -> stream[16]
      [] category = "rigid"    -> stream[17]

\* load() is past _load_header
HeaderDone == ppc \notin {"idle", "header"}

\* apart from its header's signature, marker and encoding the file is well
\* formed: the index sizes are 1, 2 or 4, nothing follows the last section,
\* nothing of it is missing, and its bones have the two flags of bits 12 and 13
\* both or neither
WellFormedBody ==
    /\ pmx_file.size \in {1, 2, 4}
    /\ pmx_file.trailing = 0
    /\ pmx_file.cut = 0
    /\ Bit(pmx_file.bone_flags, 12) = Bit(pmx_file.bone_flags, 13)

\* load() returned a model with all its sections
Returned ==
    /\ ppc = "done"
    /\ DOMAIN model = {"info", "vertex", "face", "texture", "material", "bone", "morph",
                       "display", "rigid", "joint"}

\* C7: a stream is rejected with an error when its first three signature bytes
\* are not 'PMX' or its version is not exactly 2.0; a mismatch only in the
\* fourth signature byte or in the format-marker byte (not 8) is a warning, and
\* decoding continues to a normal result.
C7_HeaderRejectsOrWarns ==
    HeaderDone =>
        IF SubSeq(SignatureBytes, 1, 3) # <<80, 77, 88>> \/ VersionBytes # <<0, 0, 0, 64>>
        THEN /\ ppc = "error"
             /\ pmx_error \in {"Exception: invalid file", "Exception: unsupported version"}
             /\ DOMAIN header = {}
             /\ DOMAIN model = {}
        ELSE /\ DOMAIN header # {}
             /\ warned = (SignatureBytes[4] # 32 \/ MarkerByte # 8)
             /\ WellFormedBody => ppc # "error"
             /\ WellFormedBody /\ ppc = "done" => Returned

\* a file whose marker byte is not 8 was decoded to the end, with a warning
C7_Witness ==
    /\ Returned
    /\ warned
    /\ MarkerByte # 8
    /\ SignatureBytes = <<80, 77, 88, 32>>
    /\ Len(model.bone) > 0

\* C8: after all sections are decoded the load succeeds only if no byte remains:
\* with one or more bytes left it fails with an error and returns no model.
C8_TrailingBytesFail ==
    [][ppc = "rest" =>
          IF fs_pos < Len(stream)
          THEN ppc' = "error" /\ pmx_error' = "Exception: remaining bytes"
          ELSE ppc' = "done" /\ pmx_error' = ""]_vars

\* all sections were decoded, a byte was left, and the load failed
C8_Witness ==
    /\ ppc = "error"
    /\ pmx_error = "Exception: remaining bytes"
    /\ "joint" \in DOMAIN model
    /\ Len(model.joint) > 0
    /\ pmx_file.trailing > 0

\* C9, as the code has it: an encoding selector other than 0 selects UTF-8,
\* whether it is 1 or an unsupported value; no error is raised for it, and the
\* strings are decoded as UTF-8.
C9_OtherSelectorsAreUtf8 ==
    HeaderDone /\ EncodingByte \notin {0, 1} =>
        /\ pmx_error \notin {"Exception: invalid file", "Exception: unsupported version"}
              => /\ DOMAIN header # {}
                 /\ header.encoding = "utf-8"
        /\ ppc = "error" =>
              pmx_error \in {"Exception: invalid file", "Exception: unsupported version",
                             "KeyError", "Exception: remaining bytes"}
        /\ WellFormedBody /\ DOMAIN header # {} => ppc # "error"
        /\ "info" \in DOMAIN model => model.info = <<<<97>>, <<97>>, <<97>>, <<97>>>>

\* C9 as stated: an encoding selector that is neither 0 nor 1 aborts the load
\* with a fatal format error.
C9_OtherSelectorsRejected ==
    HeaderDone /\ EncodingByte \notin {0, 1} => ppc = "error"

\* a file with encoding selector 2 was decoded to the end, its text as UTF-8
C9_Witness ==
    /\ Returned
    /\ EncodingByte = 2
    /\ header.encoding = "utf-8"
    /\ model.info[1] = <<97>>
    /\ Len(model.texture) > 0

\* the number a run of bytes stands for, little endian: unsigned, or two's
\* complement
RECURSIVE LittleEndian(_, _)
LittleEndian(bytes, i) ==
    IF i > Len(bytes) THEN 0 ELSE bytes[i] * 256 ^ (i - 1) + LittleEndian(bytes, i + 1)

ExpectedIndex(bytes, category) ==
    IF category = "vertex" \/ bytes[Len(bytes)] < 128
    THEN LittleEndian(bytes, 1)
    ELSE LittleEndian(SubSeq(bytes, 1, Len(bytes) - 1), 1)
         - (256 - bytes[Len(bytes)]) * 256 ^ (Len(bytes) - 1)

\* a read that took the width its category declares and decoded it by the
\* category's signedness
DecodedAsDeclared(e) ==
    /\ e.next - e.pos = e.size
    /\ e.bytes = SubSeq(stream, e.pos + 1, e.next)
    /\ e.value = ExpectedIndex(e.bytes, e.category)
    /\ (e.category # "vertex" /\ \A j \in DOMAIN e.bytes : e.bytes[j] = 255) => e.value = -1

\* C10: every index read of a category consumes exactly the width the header
\* declares for the category (1, 2 or 4); vertex indices decode as unsigned, the
\* other five categories as signed (all-ones bytes are -1); with a declared width
\* outside {1, 2, 4} the first read of the category fails.  (A read for which
\* the stream has fewer bytes left than the declared width is a short read.)
C10_IndexReadsUseDeclaredWidth ==
    /\ \A i \in DOMAIN index_reads :
          /\ index_reads[i].size = DeclaredSize(index_reads[i].category)
          /\ index_reads[i].unsigned = (index_reads[i].category = "vertex")
          /\ IF index_reads[i].size \in {1, 2, 4}
             THEN IF index_reads[i].raised = ""
                  THEN DecodedAsDeclared(index_reads[i])
                  ELSE /\ index_reads[i].raised = "struct.error"
                       /\ Len(stream) - index_reads[i].pos < index_reads[i].size
                       /\ i = Len(index_reads)
                       /\ ppc = "error"
             ELSE /\ index_reads[i].raised = "KeyError"
                  /\ index_reads[i].next = index_reads[i].pos
                  /\ i = Len(index_reads)
                  /\ ppc = "error"
                  /\ pmx_error = "KeyError"
                  /\ \A j \in 1 .. i - 1 : index_reads[j].category # index_reads[i].category
    /\ Returned /\ pmx_file.elements > 0 =>
          \A category \in Categories :
              /\ DeclaredSize(category) \in {1, 2, 4}
              /\ \E i \in DOMAIN index_reads : index_reads[i].category = category

\* a file was decoded whose vertex indices are two all-ones bytes (65535) and
\* whose bone indices are all-ones (-1)
C10_Witness ==
    /\ Returned
    /\ \E i \in DOMAIN index_reads :
          /\ index_reads[i].category = "vertex"
          /\ index_reads[i].bytes = <<255, 255>>
          /\ index_reads[i].value = 65535
    /\ \E i \in DOMAIN index_reads :
          /\ index_reads[i].category = "bone"
          /\ index_reads[i].bytes = <<255>>
          /\ index_reads[i].value = -1

(***************************************************************************)
(* Properties of the joint decoder on a file that ends early.              *)
(***************************************************************************)
\* the bytes the eight vectors of a joint take
JointVectorBytes == 3 * 4 * 8

\* the bytes of a joint record of the file
JointLength ==
    2 * Len(WriteStr(pmx_file)) + 1 + 2 * SizeIn(pmx_file, "rigid") + JointVectorBytes

\* the last joint lacks bytes of its vectors only: both rigid references are there
CutAfterReferences == pmx_file.cut \in 1 .. JointVectorBytes

\* the last joint lacks a byte of its names, its mode or its rigid references
CutBeforeReferences == pmx_file.cut \in JointVectorBytes + 1 .. JointLength

\* the vectors of the last joint that are whole
VectorsWhole == (JointVectorBytes - pmx_file.cut) \div 12

\* _load_model is past the joint section
JointsDone == ppc \in {"rest", "done", "error"}

\* the joint a truncated record should give: what was read, then (0, 0, 0)
TruncatedJoint ==
    <<IF pmx_file.encoding_index = 0 THEN <<97, 0>> ELSE <<97>>,
      IF pmx_file.encoding_index = 0 THEN <<97, 0>> ELSE <<97>>,
      0,
      IF pmx_file.ones THEN -1 ELSE 0,
      IF pmx_file.ones THEN -1 ELSE 0>>
    \o [j \in 1 .. 8 |->
          IF j <= VectorsWhole
          THEN <<<<0, 0, 128, 63>>, <<0, 0, 128, 63>>, <<0, 0, 128, 63>>>>
          ELSE ZeroVector3D]

\* C11: a short read inside a joint record after both rigid-body references were
\* read, whatever their values (-1 included), does not fail: the joint keeps the
\* fields read, every unread vector is (0, 0, 0), and the load completes.
C11_TruncatedJointTolerated ==
    CutAfterReferences /\ JointsDone =>
        /\ ppc # "error"
        /\ "joint" \in DOMAIN model
        /\ Len(model.joint) = pmx_file.elements
        /\ SubSeq(model.joint[Len(model.joint)], 3, 13) = SubSeq(TruncatedJoint, 3, 13)

\* C11 for references that are not the sentinel: the truncated joint is kept
C11_Tolerated ==
    /\ CutAfterReferences
    /\ ~pmx_file.ones
    /\ ppc = "done"
    /\ SubSeq(model.joint[Len(model.joint)], 3, 13) = SubSeq(TruncatedJoint, 3, 13)

\* C12: a short read in a joint record before both rigid-body references are
\* read (in a name, the mode byte or a reference) propagates out of _load_joint,
\* and the load of the model fails.
C12_EarlyShortReadPropagates ==
    CutBeforeReferences /\ JointsDone =>
        /\ ppc = "error"
        /\ pmx_error = "struct.error"
        /\ "joint" \notin DOMAIN model

\* the source reference of the last joint was read, and is not the sentinel; the
\* destination reference is missing, and the load failed
C12_Witness ==
    /\ pmx_file.cut = JointVectorBytes + SizeIn(pmx_file, "rigid")
    /\ ppc = "error"
    /\ pmx_error = "struct.error"
    /\ Len(index_reads) > 1
    /\ index_reads[Len(index_reads)].raised = "struct.error"
    /\ index_reads[Len(index_reads) - 1].category = "rigid"
    /\ index_reads[Len(index_reads) - 1].raised = ""
    /\ index_reads[Len(index_reads) - 1].value = 0

(***************************************************************************)
(* Properties of the bone decoder.                                         *)
(***************************************************************************)
\* the values _load_bone read for a bone: name, name_en, location, parent_index,
\* transform_order, flags, and what the flags made it read
FlagsOf(bone) == bone[6]

\* the reads of a bone that follow its flag field, for bones without IK
ReadAfterFlags(bone) == Len(bone) - 6

\* the reads the format has after the flag field, the outside parent's key aside
ReadBeforeKey(flags) ==
    1 + (IF Bit(flags, 8) \/ Bit(flags, 9) THEN 2 ELSE 0)
      + (IF Bit(flags, 10) THEN 1 ELSE 0) + (IF Bit(flags, 11) THEN 2 ELSE 0)

\* the bones decoded so far
BonesDecoded == IF "bone" \in DOMAIN model THEN model.bone ELSE <<>>

\* C13: the outside-parent key is consumed exactly when the outside-parent flag
\* (bit 13) is set, and transform-after-physics and outside-parent are taken from
\* two distinct bits (12 and 13) of the 14-bit flag field: a bone with only
\* transform-after-physics consumes no key, one with only outside-parent one.
C13_OutsideParentKeyByItsOwnFlag ==
    \A i \in DOMAIN BonesDecoded :
        /\ ReadAfterFlags(BonesDecoded[i])
              = ReadBeforeKey(FlagsOf(BonesDecoded[i]))
                + (IF Bit(FlagsOf(BonesDecoded[i]), 13) THEN 1 ELSE 0)
        /\ BoneFlags(FlagsOf(BonesDecoded[i])).transform_after_physics
              = Bit(FlagsOf(BonesDecoded[i]), 12)
        /\ BoneFlags(FlagsOf(BonesDecoded[i])).outside_parent_update
              = Bit(FlagsOf(BonesDecoded[i]), 13)

\* what the decoder does: the key is consumed exactly when bit 12 is set
C13_KeyFollowsBit12 ==
    \A i \in DOMAIN BonesDecoded :
        ReadAfterFlags(BonesDecoded[i])
            = ReadBeforeKey(FlagsOf(BonesDecoded[i]))
              + (IF Bit(FlagsOf(BonesDecoded[i]), 12) THEN 1 ELSE 0)

(***************************************************************************)
(* Properties of the motion decoder.                                       *)
(***************************************************************************)
\* the signature field of the file holds the literal signature
SignatureLiteral == vmd_desc.signature = VMD_SIGNATURE

\* the sections every file has, in the order _load_file reads them
MandatorySections ==
    <<"header", "bone_animation", "shape_key_animation", "camera_animation", "lamp_animation">>

\* the bytes of the whole file up to the end of the i-th of these sections
SectionEnd(i) ==
    Len(WriteVmdHeader(vmd_desc))
    + (IF i >= 2 THEN Len(WriteKeys(WriteBoneKey, vmd_desc.keys)) ELSE 0)
    + (IF i >= 3 THEN Len(WriteKeys(WriteShapeKey, vmd_desc.keys)) ELSE 0)
    + (IF i >= 4 THEN Len(WriteKeys(WriteCameraKey, vmd_desc.keys)) ELSE 0)
    + (IF i >= 5 THEN Len(WriteKeys(WriteLampKey, vmd_desc.keys)) ELSE 0)

MandatoryEnd == SectionEnd(5)

SelfShadowEnd == MandatoryEnd + Len(WriteSelfShadow(vmd_desc))

\* the stream ends after the lamp section, or later
EndsInOptional == SignatureLiteral /\ Len(stream) >= MandatoryEnd

\* the self shadow keys and the property keys of the whole file, decoded
SelfShadowKeys ==
    [i \in 1 .. vmd_desc.self_shadow |->
        <<1, 1, [kind |-> "10000 - x * 10000", x |-> <<0, 0, 128, 63>>]>>]

PropertyKeys == [i \in 1 .. vmd_desc.property |-> <<1, 1, <<<<<<99>>, 1>>>>>>]

C15_MandatorySectionsNotTolerated ==
    /\ ~SignatureLiteral /\ vpc # "header" =>
          vpc = "error" /\ vmd_error = "Exception: invalid file"
    /\ \A i \in DOMAIN MandatorySections :
          SignatureLiteral /\ Len(stream) < SectionEnd(i) =>
              /\ vpc \in {MandatorySections[j] : j \in 1 .. i} \cup {"error"}
              /\ vpc = "error" => vmd_error = "struct.error" /\ fs_pos = Len(stream)
    /\ vpc = "done" => EndsInOptional

\* the stream ended after the camera section, the lamp section's count is
\* missing, and load failed
C15_Witness ==
    /\ vpc = "error"
    /\ vmd_error = "struct.error"
    /\ SignatureLiteral
    /\ Len(stream) = SectionEnd(4)
    /\ Len(vmd_file.camera_animation) > 0

\* ---------------------------------------------------------------------------
\* Conversion of a decoded model to the viewer's model (core/mmd/convert.py)
\* and the viewer's meshes (viewer/common/model.py, viewer/opengl/viewer.py)
\* ---------------------------------------------------------------------------

\* a weight w is the fixed-point number w / WeightUnit, so 1.0 is WeightUnit
WeightUnit == 2
MaxVertices == 2
MaxFaces == 2
MaxTextures == 1
MaxMaterials == 2

StoredWeights == 0..WeightUnit

\* pmx.BoneWeight as _load_bone_weight leaves it, for each type it knows
BoneWeights ==
    [type : {BDEF1}, bones : {<<0>>}, weights : {WeightUnit}]
    \cup [type : {BDEF2}, bones : {<<0, 1>>}, weights : StoredWeights]
    \cup [type : {BDEF4}, bones : {<<0, 1, 0, 1>>},
          weights : [1..4 -> StoredWeights]]
    \cup [type : {SDEF}, bones : {<<0, 1>>}, weights : [weight : StoredWeights]]

\* the weights of the vertices before the last one
LeadingBoneWeights == {w \in BoneWeights : w.type # BDEF4}

PmxVertices == [weight : BoneWeights]

\* the vertex lists: every weight in the last place, behind up to
\* MaxVertices - 1 vertices of the other types
RECURSIVE VertexLists(_)
VertexLists(n) ==
    IF n = 1 THEN {<<v>> : v \in PmxVertices}
    ELSE VertexLists(n - 1)
         \cup {<<[weight |-> w]>> \o vs : w \in LeadingBoneWeights, vs \in VertexLists(n - 1)}

\* face k of the file, its three vertex indices
PmxFace(k) == <<3 * k, 3 * k + 1, 3 * k + 2>>

PmxFaces(n) == [k \in 1..n |-> PmxFace(k - 1)]

PmxTextures(n) == [k \in 1..n |-> [path |-> <<"texture", k - 1>>]]

FaceVertexCounts == 0..(3 * MaxFaces)

\* pmx.Material as _load_material leaves it: the fields from_pmx branches on
PmxMaterials ==
    [texture_index : {-1, 0}, sphere_texture_index : {-1, 0},
     is_shared_toon_texture : {TRUE}, toon_texture_number : {0},
     face_vertex_count : FaceVertexCounts]
    \cup [texture_index : {-1, 0}, sphere_texture_index : {-1, 0},
          is_shared_toon_texture : {FALSE}, toon_texture_number : {0, MaxTextures},
          face_vertex_count : FaceVertexCounts]

\* the materials before the last one: textured, with a shared toon
LeadingMaterials ==
    {m \in PmxMaterials : /\ m.texture_index = 0
                          /\ m.sphere_texture_index = -1
                          /\ m.is_shared_toon_texture}

RECURSIVE MaterialLists(_)
MaterialLists(n) ==
    IF n = 0 THEN {<<>>}
    ELSE MaterialLists(n - 1)
         \cup {<<m>> : m \in PmxMaterials}
         \cup {<<m>> \o ms : m \in LeadingMaterials, ms \in MaterialLists(n - 1) \ {<<>>}}

\* the decoded models given to from_pmx: vertices only, or faces, textures and
\* materials only
PmxModels ==
    [vertex : VertexLists(MaxVertices), face : {<<>>}, texture : {<<>>},
     material : {<<>>}, bone : {<<>>}]
    \cup [vertex : {<<>>}, face : {PmxFaces(n) : n \in 0..MaxFaces},
          texture : {PmxTextures(n) : n \in 0..MaxTextures},
          material : MaterialLists(MaxMaterials), bone : {<<>>}]

\* np.atleast_1d(np.array(value)) copied to the front of four fill values;
\* scalar tells a number from a tuple
atleast_4d(value, scalar) ==
    LET v == IF scalar THEN <<value>> ELSE value
    IN  [k \in 1..4 |-> IF k <= Len(v) THEN v[k] ELSE 0]

\* the weight from_pmx resolves for a vertex
ResolvedWeight(weight) ==
    CASE weight.type \in {BDEF4, BDEF1} -> weight.weights
      [] weight.type = BDEF2 -> <<weight.weights, WeightUnit - weight.weights>>
      [] weight.type = SDEF -> <<weight.weights.weight, WeightUnit - weight.weights.weight>>

\* a fresh mmdtypes.Vertex has sdef_options None, and from_pmx assigns to
\* its attribute c for an SDEF vertex
VertexRaises(pmx_vertex) == pmx_vertex.weight.type = SDEF

ConvertVertex(pmx_vertex) ==
    [bone_weight_type |-> pmx_vertex.weight.type,
     bone_ids |-> atleast_4d(pmx_vertex.weight.bones, FALSE),
     bone_weights |-> atleast_4d(ResolvedWeight(pmx_vertex.weight),
                                 pmx_vertex.weight.type = BDEF1)]

\* list[i] of Python: an index from the end when negative
InRange(list, i) == -Len(list) <= i /\ i < Len(list)

PyIndex(list, i) == IF i >= 0 THEN list[i + 1] ELSE list[Len(list) + i + 1]

\* the toon texture is looked up when the sphere texture index is a texture
ToonLookedUp(m, texture) ==
    /\ ~m.is_shared_toon_texture
    /\ m.sphere_texture_index \in 0..(Len(texture) - 1)

MaterialRaises(m, texture) ==
    \/ ~InRange(texture, m.texture_index)
    \/ ToonLookedUp(m, texture) /\ ~InRange(texture, m.toon_texture_number)

NoName == <<"None">>

\* f'toon{n+1:02}.bmp'
SharedToonName(n) == <<"toon", (n + 1) \div 10, (n + 1) % 10, ".bmp">>

\* sum of face_vertex_count over the first n materials
RECURSIVE FaceVertexCount(_, _)
FaceVertexCount(material, n) ==
    IF n = 0 THEN 0
    ELSE FaceVertexCount(material, n - 1) + material[n].face_vertex_count

ConvertMaterial(pmx, i) ==
    LET m == pmx.material[i]
    IN  [texture_name |-> PyIndex(pmx.texture, m.texture_index).path,
         sphere_texture_name |->
             IF m.sphere_texture_index \in 0..(Len(pmx.texture) - 1)
             THEN PyIndex(pmx.texture, m.sphere_texture_index).path
             ELSE NoName,
         toon_texture_name |->
             IF m.is_shared_toon_texture THEN SharedToonName(m.toon_texture_number)
             ELSE IF ToonLookedUp(m, pmx.texture)
             THEN PyIndex(pmx.texture, m.toon_texture_number).path
             ELSE NoName,
         face_vertex_index_start |-> FaceVertexCount(pmx.material, i - 1),
         face_vertex_size |-> m.face_vertex_count]

\* from_pmx: the exception it ends with, or the model it returns
from_pmx(pmx) ==
    IF \E i \in DOMAIN pmx.vertex : VertexRaises(pmx.vertex[i])
    THEN [err |-> "AttributeError", model |-> <<>>]
    ELSE IF \E i \in DOMAIN pmx.material : MaterialRaises(pmx.material[i], pmx.texture)
    THEN [err |-> "IndexError", model |-> <<>>]
    ELSE [err |-> "",
          model |-> [vertex |-> [i \in DOMAIN pmx.vertex |-> ConvertVertex(pmx.vertex[i])],
                     face |-> pmx.face,
                     material |-> [i \in DOMAIN pmx.material |-> ConvertMaterial(pmx, i)],
                     bone |-> <<>>]]

\* np.array(model_data.face, dtype=np.uint16).reshape(-1)
RECURSIVE FlatFace(_)
FlatFace(face) ==
    IF face = <<>> THEN <<>>
    ELSE [k \in 1..3 |-> Head(face)[k] % 65536] \o FlatFace(Tail(face))

\* a[:n] and a[n:] of Python for n >= 0
SliceTo(a, n) == SubSeq(a, 1, IF n < Len(a) THEN n ELSE Len(a))

\* the whole of a, as a variant
Unsliced(a, n) == a

SliceFrom(a, n) == SubSeq(a, (IF n < Len(a) THEN n ELSE Len(a)) + 1, Len(a))

\* Viewer._create_mesh from material i on
RECURSIVE create_mesh(_, _, _)
create_mesh(total_face, material_data, i) ==
    IF i > Len(material_data) THEN <<>>
    ELSE <<[material_index |-> i - 1,
            face |-> SliceTo(total_face, material_data[i].face_vertex_size)]>>
         \o create_mesh(SliceFrom(total_face, material_data[i].face_vertex_size),
                        material_data, i + 1)

InitConvert ==
    /\ pmx_model \in PmxModels
    /\ mmd_model = <<>>
    /\ mesh = <<>>
    /\ convert_error = ""
    /\ cpc = "loaded"
    /\ MotionIdle
    /\ BoneIdle
    /\ PmxIdle
    /\ VmdIdle
    /\ IkIdle
    /\ BezierIdle
    /\ GrantIdle

\* model = from_pmx(pmx_model)
FromPmx ==
    /\ cpc = "loaded"
    /\ \E r \in {from_pmx(pmx_model)} :
        /\ convert_error' = r.err
        /\ mmd_model' = r.model
        /\ cpc' = IF r.err = "" THEN "converted" ELSE "error"
    /\ UNCHANGED <<pmx_model, mesh>>
    /\ UNCHANGED notConvert

\* Viewer(Model(model), None): the face buffer and the meshes
CreateMesh ==
    /\ cpc = "converted"
    /\ mesh' = create_mesh(FlatFace(mmd_model.face), mmd_model.material, 1)
    /\ cpc' = "viewing"
    /\ UNCHANGED <<pmx_model, mmd_model, convert_error>>
    /\ UNCHANGED notConvert

NextConvert == FromPmx \/ CreateMesh

SpecConvert == InitConvert /\ [][NextConvert]_vars

\* ---------------------------------------------------------------------------
\* Properties of the conversion
\* ---------------------------------------------------------------------------

Sum4(w) == w[1] + w[2] + w[3] + w[4]

\* the stored weight of a BDEF2 or SDEF vertex
StoredWeight(weight) ==
    IF weight.type = SDEF THEN weight.weights.weight ELSE weight.weights

\* the weights the conversion is said to resolve for a vertex
SaidWeights(weight) ==
    IF weight.type = BDEF4 THEN weight.weights
    ELSE <<StoredWeight(weight), WeightUnit - StoredWeight(weight), 0, 0>>

\* C16: once from_pmx has run on a model, each of its BDEF2, BDEF4 and SDEF
\* vertices has four resolved weights in the result, (w, 1 - w, 0, 0) for
\* BDEF2 and SDEF and the stored four for BDEF4, and they sum to 1.
C16_ResolvedWeightsSumToOne ==
    cpc # "loaded" =>
        \A i \in DOMAIN pmx_model.vertex :
            pmx_model.vertex[i].weight.type \in {BDEF2, BDEF4, SDEF} =>
                /\ convert_error = ""
                /\ mmd_model.vertex[i].bone_weights = SaidWeights(pmx_model.vertex[i].weight)
                /\ Sum4(mmd_model.vertex[i].bone_weights) = WeightUnit

\* what does hold for C16's vertices: a returned model has no SDEF vertex,
\* its BDEF2 weights are (w, 1 - w, 0, 0) and sum to 1, and its BDEF4 weights
\* are the stored ones, whatever they sum to
C16_ReturnedWeights ==
    cpc \in {"converted", "viewing"} =>
        \A i \in DOMAIN pmx_model.vertex :
            /\ pmx_model.vertex[i].weight.type # SDEF
            /\ mmd_model.vertex[i].bone_weights = SaidWeights(pmx_model.vertex[i].weight)
            /\ pmx_model.vertex[i].weight.type = BDEF2
                   => Sum4(mmd_model.vertex[i].bone_weights) = WeightUnit

\* a returned model with a BDEF4 vertex whose weights do not sum to 1
C16_UnnormalisedBdef4 ==
    /\ cpc = "converted"
    /\ \E i \in DOMAIN pmx_model.vertex :
        /\ pmx_model.vertex[i].weight.type = BDEF4
        /\ Sum4(mmd_model.vertex[i].bone_weights) # WeightUnit

\* an SDEF vertex ends from_pmx with an exception
C16_SdefRaises ==
    /\ cpc = "error"
    /\ convert_error = "AttributeError"
    /\ \E i \in DOMAIN pmx_model.vertex : pmx_model.vertex[i].weight.type = SDEF

\* sum of face_vertex_size over the materials before material i of the result
RECURSIVE SizeBefore(_, _)
SizeBefore(material, i) ==
    IF i = 1 THEN 0 ELSE SizeBefore(material, i - 1) + material[i - 1].face_vertex_size

\* buffer[start : start + size], the range of a material in the face buffer
OwnRange(buffer, m) ==
    LET end(n) == IF n < Len(buffer) THEN n ELSE Len(buffer)
    IN  SubSeq(buffer, end(m.face_vertex_index_start) + 1,
               end(m.face_vertex_index_start + m.face_vertex_size))

\* the viewer model's face buffer: three vertex indices a face, in file order
FaceBuffer == [k \in 1..(3 * Len(pmx_model.face)) |-> k - 1]

\* C19: in a model from_pmx returned, each material starts where the sizes of
\* the materials before it end (the first at 0), so the ranges
\* [start, start + size) follow each other in material order without gap or
\* overlap; and the mesh the viewer makes for a material holds exactly the
\* part of the face buffer in that range.
C19_MaterialRangesContiguous ==
    cpc \in {"converted", "viewing"} =>
        /\ \A i \in DOMAIN mmd_model.material :
            /\ mmd_model.material[i].face_vertex_index_start
                   = SizeBefore(mmd_model.material, i)
            /\ mmd_model.material[i].face_vertex_size
                   = pmx_model.material[i].face_vertex_count
            /\ i > 1 => mmd_model.material[i].face_vertex_index_start
                            = mmd_model.material[i - 1].face_vertex_index_start
                              + mmd_model.material[i - 1].face_vertex_size
        /\ cpc = "viewing" =>
            /\ Len(mesh) = Len(mmd_model.material)
            /\ \A i \in DOMAIN mesh :
                /\ mesh[i].material_index = i - 1
                /\ mesh[i].face = OwnRange(FaceBuffer, mmd_model.material[i])

\* two materials with faces of their own that fill the buffer, each given its
\* mesh
C19_Witness ==
    /\ cpc = "viewing"
    /\ Len(mesh) = 2
    /\ mesh[1].face # <<>>
    /\ mesh[2].face # <<>>
    /\ mmd_model.material[2].face_vertex_index_start = Len(mesh[1].face)
    /\ Len(mesh[1].face) + Len(mesh[2].face) = Len(FaceBuffer)

\* ---------------------------------------------------------------------------
\* Bone.ik_move (viewer/common/bone.py): the loops, with the geometry of an
\* iteration left to its three tests. The bones of the chain have parent links
\* that reach a root, so that get_global_matrix returns for them.
\* ---------------------------------------------------------------------------

\* the default of ik_move's loop_range
loop_range == 256

MaxLinks == 2

\* the iteration caps ik_move is called with
LoopSizes == {-1, 0, 1, 2, loop_range, loop_range + 1}

\* the chains: lists of link bones
Chains == {[i \in 1..k |-> i] : k \in 0..MaxLinks}

\* what an iteration comes to: the effector is within bias of the target's
\* direction, the rotation axis is below bias, the link is rotated, or the
\* link is a knee that rotatable_control holds still
Iterations == {"aligned", "no_axis", "rotated", "held"}

\* loop_size as given, as a variant
unclamped_loop_size(loop_size) == loop_size

\* min(loop_size, loop_range)
clamped_loop_size(loop_size) == IF loop_size < loop_range THEN loop_size ELSE loop_range

InitIk ==
    /\ ik \in [chain : Chains, loop_size : LoopSizes, given : LoopSizes, link : {0},
               count : {0}, exit_flag : {FALSE}, iterations : {0}]
    /\ ik.given = ik.loop_size
    /\ ikpc = "call"
    /\ MotionIdle
    /\ BoneIdle
    /\ PmxIdle
    /\ VmdIdle
    /\ ConvertIdle
    /\ BezierIdle
    /\ GrantIdle

\* ik_move up to the loop over the chain
IkMove ==
    /\ ikpc = "call"
    /\ ik' = [ik EXCEPT !.loop_size = clamped_loop_size(ik.loop_size)]
    /\ ikpc' = "for chain_bone"
    /\ UNCHANGED notIk

\* for chain_bone in chain: the next link, or the return when none is left
IkChainBone ==
    /\ ikpc = "for chain_bone"
    /\ IF ik.link < Len(ik.chain)
       THEN /\ ik' = [ik EXCEPT !.link = @ + 1, !.exit_flag = FALSE, !.count = 0]
            /\ ikpc' = "for range"
       ELSE /\ ikpc' = "returned"
            /\ UNCHANGED ik
    /\ UNCHANGED notIk

\* one iteration of for _ in range(loop_size)
IkIteration(outcome) ==
    /\ ikpc = "for range"
    /\ ik.count < ik.loop_size
    /\ IF outcome \in {"aligned", "no_axis"}
       THEN /\ ik' = [ik EXCEPT !.iterations = @ + 1, !.exit_flag = TRUE]
            /\ ikpc' = "if exit_flag"
       ELSE /\ ik' = [ik EXCEPT !.iterations = @ + 1, !.count = @ + 1]
            /\ ikpc' = "for range"
    /\ UNCHANGED notIk

\* range(loop_size) is used up
IkRangeEnd ==
    /\ ikpc = "for range"
    /\ ik.count >= ik.loop_size
    /\ ikpc' = "if exit_flag"
    /\ UNCHANGED ik
    /\ UNCHANGED notIk

\* a break that leaves the loop over the range only, as a variant
inner_break(exit_flag) == "for chain_bone"

\* if exit_flag: break, out of the loop over the chain, which ends the call
exit_flag_break(exit_flag) == IF exit_flag THEN "returned" ELSE "for chain_bone"

\* the test of exit_flag after the loop over the range
IkExitFlag ==
    /\ ikpc = "if exit_flag"
    /\ ikpc' = exit_flag_break(ik.exit_flag)
    /\ UNCHANGED ik
    /\ UNCHANGED notIk

NextIk ==
    \/ IkMove
    \/ IkChainBone
    \/ \E outcome \in Iterations : IkIteration(outcome)
    \/ IkRangeEnd
    \/ IkExitFlag

SpecIk == InitIk /\ [][NextIk]_vars

\* ik_move is one call: it runs on until it returns
SpecIkRuns == SpecIk /\ WF_vars(NextIk)

\* ---------------------------------------------------------------------------
\* Properties of ik_move
\* ---------------------------------------------------------------------------

\* k * min(c, 256) for a chain of k links and a cap of c, 0 when the cap is
\* not positive
IterationBound ==
    IF ik.given <= 0 THEN 0
    ELSE Len(ik.chain) * (IF ik.given < loop_range THEN ik.given ELSE loop_range)

IkCalled == ikpc # "idle"

IkWithinBound == IkCalled => ik.iterations <= IterationBound

\* C17: ik_move with a cap of c and a chain of k links runs at most
\* k * min(c, 256) iterations, none for an empty chain or a cap <= 0, and then
\* returns, whatever the iterations come to.
C17_IkMoveBoundedAndReturns ==
    /\ [](IkWithinBound)
    /\ IkCalled ~> (ikpc = "returned")

\* a return after every iteration of a full chain under a cap above 256
C17_Witness ==
    /\ ikpc = "returned"
    /\ ik.given = loop_range + 1
    /\ Len(ik.chain) = MaxLinks
    /\ ik.iterations = MaxLinks * loop_range

\* ---------------------------------------------------------------------------
\* solve_bezier called on its own (viewer/common/key_frame.py)
\* ---------------------------------------------------------------------------

\* coordinates c / 127 of control points in the unit square
ControlValues == {0, 20, 64, 107, 127}

ControlPairs == ControlValues \X ControlValues

\* the rates p / q of the calls: the two ends and the middle
LinearRates == {<<0, 1>>, <<1, 2>>, <<1, 1>>}

InitBezier ==
    /\ bezier \in [x : ControlPairs, y : ControlPairs, linear_rate : LinearRates,
                   result : {<<>>}]
    /\ bzpc = "call"
    /\ MotionIdle
    /\ BoneIdle
    /\ PmxIdle
    /\ VmdIdle
    /\ ConvertIdle
    /\ IkIdle
    /\ GrantIdle

\* solve_bezier(x, y, linear_rate)
SolveBezier ==
    /\ bzpc = "call"
    /\ bezier' = [bezier EXCEPT !.result = solve_bezier(bezier.x, bezier.y, bezier.linear_rate)]
    /\ bzpc' = "returned"
    /\ UNCHANGED notBezier

NextBezier == SolveBezier

SpecBezier == InitBezier /\ [][NextBezier]_vars

\* ---------------------------------------------------------------------------
\* Properties of solve_bezier
\* ---------------------------------------------------------------------------

\* C18: solve_bezier returns exactly 0 for a rate of 0 and exactly 1 for a
\* rate of 1, whatever the control points in the unit square.
C18_BezierEndpointsExact ==
    bzpc = "returned" =>
        /\ bezier.linear_rate = <<0, 1>> => BNorm(bezier.result) = <<>>
        /\ bezier.linear_rate = <<1, 1>> => BNorm(bezier.result) = Denom

\* what does hold at a rate of 0: t stays above 0, so the result is above 0
C18_NeverZero ==
    bzpc = "returned" /\ bezier.linear_rate = <<0, 1>> => BNorm(bezier.result) # <<>>

\* at a rate of 0, with the control points (0, 127/127) and (0, 127/127), the
\* result is above 0.04
C18_FarFromZero ==
    /\ bzpc = "returned"
    /\ bezier.linear_rate = <<0, 1>>
    /\ BLess(BMulSmall(Denom, 4), BMulSmall(BNorm(bezier.result), 100))

\* ---------------------------------------------------------------------------
\* Bones that follow another bone (viewer/common/bone.py, model.py).
\*
\* A matrix is a rigid motion of the plane: a rotation of rot quarter turns
\* about the z axis, then a translation by pos, on row vectors as pyrr has it.
\* ---------------------------------------------------------------------------

MaxGrantSteps == 2

\* the row vector p turned by r quarter turns
RECURSIVE Turned(_, _)
Turned(p, r) == IF r % 4 = 0 THEN p ELSE Turned(<<-p[2], p[1]>>, (r % 4) - 1)

\* matrix44.create_identity
identity44 == [rot |-> 0, pos |-> <<0, 0>>]

\* matrix44.create_from_translation
translation44(v) == [rot |-> 0, pos |-> v]

\* a rotation matrix of r quarter turns
rotation44(r) == [rot |-> r % 4, pos |-> <<0, 0>>]

\* matrix44.multiply(a, b): a, then b
multiply44(a, b) ==
    [rot |-> (a.rot + b.rot) % 4,
     pos |-> <<Turned(a.pos, b.rot)[1] + b.pos[1], Turned(a.pos, b.rot)[2] + b.pos[2]>>]

\* matrix44.inverse
inverse44(a) ==
    [rot |-> (4 - a.rot) % 4,
     pos |-> <<-Turned(a.pos, 4 - a.rot)[1], -Turned(a.pos, 4 - a.rot)[2]>>]

\* the bones of the model, by index: 0 a root, 1 the bone followed, 2 the
\* follower
GrantBones == 0..2

\* the rates of following
GrantRates == {-1, 0, 1, 2}

BoneLocation(i) == <<<<1, 0>>, <<0, 2>>, <<3, 1>>>>[i + 1]

\* the levels of the bones
GrantLevels == {0, 1}

\* the decoded bones (mmd.Bone, with the level Bone.__init__ reads): bone 2
\* follows bone 1 by its translation or by its rotation; the bones of iks are
\* IK bones, bone i with the effector i + reach and its links from i + 2 on
GrantData(parents, levels, iks, reach, links, is_translate, rate, iteration) ==
    [i \in GrantBones |->
        [location |-> BoneLocation(i),
         parent_index |-> parents[i + 1],
         level |-> levels[i + 1],
         has_additional_location |-> i = 2 /\ is_translate,
         has_additional_rotation |-> i = 2 /\ ~is_translate,
         addtional_transform |-> <<1, rate>>,
         is_ik |-> i \in iks,
         ik_target_bone |-> (i + reach) % 3,
         ik_iteration |-> iteration,
         ik_link_bones |-> [k \in 1..links |-> (i + 1 + k) % 3]]]

\* models of one level with no IK bone, a parent before its child
PlainModels ==
    {GrantData(<<-1, tp, fp>>, <<0, 0, 0>>, {}, 1, 1, is_translate, rate, 0) :
        tp \in {-1, 0}, fp \in {-1, 0, 1}, is_translate \in BOOLEAN, rate \in GrantRates}

\* models with any parent index: a later bone, or the bone itself
AnyParentModels ==
    {GrantData(<<p0, p1, p2>>, <<0, 0, 0>>, {}, 1, 1, is_translate, 1, 0) :
        p0 \in {-1, 0, 1}, p1 \in {1, 2}, p2 \in {0, 2}, is_translate \in BOOLEAN}
    \cup {GrantData(<<p0, 0, p2>>, <<0, 0, 0>>, {}, 1, 1, FALSE, 1, 0) :
        p0 \in {0, 1, 2}, p2 \in {-1, 1, 2}}

\* models with levels and IK bones
LevelModels ==
    {GrantData(<<-1, 0, 1>>, levels, iks, reach, links, FALSE, 1, iteration) :
        levels \in [1..3 -> GrantLevels], iks \in SUBSET GrantBones, reach \in {0, 1},
        links \in {1, 2}, iteration \in {0, 2}}

GrantModels == PlainModels \cup AnyParentModels \cup LevelModels

\* Bone.__init__, set_parent_bone, set_ik_bones and
\* set_grant_transform_parent_bone as Model._create_motion_bones calls them
\* for bone i
GrantBone(data, i) ==
    [id |-> i,
     level |-> data[i].level,
     init_matrix |-> translation44(data[i].location),
     offset_matrix |-> inverse44(translation44(data[i].location)),
     delta_matrix |-> identity44,
     local_matrix |-> identity44,
     part_matrix |-> IF data[i].parent_index < 0 \/ i < data[i].parent_index
                     THEN identity44
                     ELSE multiply44(translation44(data[i].location),
                                     inverse44(translation44(
                                         data[data[i].parent_index].location))),
     global_matrix |-> translation44(data[i].location),
     parent |-> IF data[i].parent_index < 0 \/ i < data[i].parent_index
                THEN None ELSE data[i].parent_index,
     is_ik |-> data[i].is_ik,
     ik_effect_bone |-> IF data[i].is_ik THEN data[i].ik_target_bone ELSE None,
     ik_iterations |-> data[i].ik_iteration,
     ik_links |-> IF data[i].is_ik THEN data[i].ik_link_bones ELSE <<>>,
     is_updated |-> FALSE,
     grant_is_translation |-> data[i].has_additional_location,
     grant_parent_bone |->
         IF data[i].has_additional_location \/ data[i].has_additional_rotation
         THEN data[i].addtional_transform[1] ELSE None,
     grant_parent_rate |->
         IF data[i].has_additional_location \/ data[i].has_additional_rotation
         THEN data[i].addtional_transform[2] ELSE 0]

\* a global matrix that leaves the parent out, as a variant
own_global_matrix44(bones, b, check_updated) ==
    IF check_updated /\ bones[b].is_updated THEN bones[b].global_matrix
    ELSE multiply44(bones[b].delta_matrix, bones[b].global_matrix)

\* Bone.get_global_matrix(check_updated), on matrices of the plane
RECURSIVE get_global_matrix44(_, _, _)
get_global_matrix44(bones, b, check_updated) ==
    IF check_updated /\ bones[b].is_updated THEN bones[b].global_matrix
    ELSE multiply44(bones[b].delta_matrix,
                    IF bones[b].parent # None
                    THEN multiply44(bones[b].part_matrix,
                                    get_global_matrix44(bones, bones[b].parent, check_updated))
                    ELSE bones[b].global_matrix)

\* Bone.get_global_matrix() never returns: the parents of b end in a bone that
\* is its own parent
RECURSIVE Unrooted(_, _)
Unrooted(bones, b) ==
    /\ bones[b].parent # None
    /\ (bones[b].parent = b \/ Unrooted(bones, bones[b].parent))

\* Bone.get_rotation: the rotation vector of the delta matrix, in quarter turns
get_rotation(bone) == IF bone.delta_matrix.rot = 3 THEN -1 ELSE bone.delta_matrix.rot

\* Bone.add_matrix
add_matrix44(bones, b, matrix) ==
    [bones EXCEPT ![b].delta_matrix = multiply44(matrix, bones[b].delta_matrix)]

\* Bone.rotate_axis: without update the matrix is returned and the bone is
\* left as it is
rotate_axis(bones, b, rotation, with_update) ==
    IF ~with_update THEN bones ELSE add_matrix44(bones, b, rotation44(rotation))

\* a control that turns the stored global matrix, as a variant
global_control(bones, b, rotation) ==
    [bones EXCEPT ![b].global_matrix = multiply44(rotation44(rotation), bones[b].global_matrix)]

\* Bone.rotatable_control: whatever the bone's name, rotate_axis is called
\* with its default update
rotatable_control(bones, b, rotation) == rotate_axis(bones, b, rotation, FALSE)

\* one iteration of ik_move for the local positions effect and target: the
\* angle between them is below the bias (cos(0.01)^2 is 0.9999), or their
\* cross product is, or the chain bone is rotated
IkOutcome(effect, target) ==
    IF /\ effect[1] * target[1] + effect[2] * target[2] > 0
       /\ 10000 * (effect[1] * target[1] + effect[2] * target[2])
                * (effect[1] * target[1] + effect[2] * target[2])
              > 9999 * (effect[1] * effect[1] + effect[2] * effect[2])
                     * (target[1] * target[1] + target[2] * target[2])
    THEN "aligned"
    ELSE IF 10000 * (effect[1] * target[2] - effect[2] * target[1])
                  * (effect[1] * target[2] - effect[2] * target[1])
                < (effect[1] * effect[1] + effect[2] * effect[2])
                      * (target[1] * target[1] + target[2] * target[2])
            \/ (effect[1] * effect[1] + effect[2] * effect[2])
                   * (target[1] * target[1] + target[2] * target[2]) = 0
    THEN "no_axis"
    ELSE "rotated"

\* the local position of a matrix under the chain bone's global matrix
LocalPosition(matrix, effector_matrix) == multiply44(matrix, inverse44(effector_matrix)).pos

\* the rotation from effect to target, to the quarter turn
QuarterTurns(effect, target) ==
    IF effect[1] * target[2] - effect[2] * target[1] > 0 THEN 1
    ELSE IF effect[1] * target[2] - effect[2] * target[1] < 0 THEN 3 ELSE 2

\* the loop `for _ in range(loop_size)` of ik_move with n iterations left
RECURSIVE IkRange(_, _, _, _, _)
IkRange(bones, effect_bone, target_position, chain_bone, n) ==
    IF n <= 0 THEN [err |-> "", bones |-> bones, exit_flag |-> FALSE]
    ELSE IF Unrooted(bones, chain_bone) \/ Unrooted(bones, effect_bone)
    THEN [err |-> "RecursionError", bones |-> bones, exit_flag |-> FALSE]
    ELSE IF IkOutcome(LocalPosition(get_global_matrix44(bones, effect_bone, FALSE),
                                    get_global_matrix44(bones, chain_bone, FALSE)),
                      LocalPosition(translation44(target_position),
                                    get_global_matrix44(bones, chain_bone, FALSE))) # "rotated"
    THEN [err |-> "", bones |-> bones, exit_flag |-> TRUE]
    ELSE IkRange(rotatable_control(
                     bones, chain_bone,
                     QuarterTurns(LocalPosition(get_global_matrix44(bones, effect_bone, FALSE),
                                                get_global_matrix44(bones, chain_bone, FALSE)),
                                  LocalPosition(translation44(target_position),
                                                get_global_matrix44(bones, chain_bone, FALSE)))),
                 effect_bone, target_position, chain_bone, n - 1)

\* the loop `for chain_bone in chain` of ik_move from link k on, r being what
\* the loop over the range left for link k
RECURSIVE IkChain(_, _, _, _, _, _)
IkChain(r, effect_bone, target_position, chain, k, loop_size) ==
    IF r.err # "" \/ r.exit_flag \/ k >= Len(chain) THEN [err |-> r.err, bones |-> r.bones]
    ELSE IkChain(IkRange(r.bones, effect_bone, target_position, chain[k + 1], loop_size),
                 effect_bone, target_position, chain, k + 1, loop_size)

\* Bone.ik_move, called on the effector
ik_move44(bones, effect_bone, target_position, chain, loop_size) ==
    IF chain = <<>> THEN [err |-> "", bones |-> bones]
    ELSE IkChain(IkRange(bones, effect_bone, target_position, chain[1],
                         clamped_loop_size(loop_size)),
                 effect_bone, target_position, chain, 1, clamped_loop_size(loop_size))

\* Bone.grant
grant(bones, b) ==
    IF bones[b].grant_parent_bone = None THEN bones
    ELSE IF bones[b].grant_is_translation
    THEN [bones EXCEPT ![b].global_matrix.pos =
                           <<bones[bones[b].grant_parent_bone].global_matrix.pos[1]
                                 * bones[b].grant_parent_rate,
                             bones[bones[b].grant_parent_bone].global_matrix.pos[2]
                                 * bones[b].grant_parent_rate>>]
    ELSE [bones EXCEPT ![b].delta_matrix =
                           multiply44(rotation44(get_rotation(bones[bones[b].grant_parent_bone])
                                                 * bones[b].grant_parent_rate),
                                      bones[b].delta_matrix)]

\* Bone.apply never returns: the parents that are not updated end in a bone
\* that is its own parent
RECURSIVE ApplyOverflows(_, _)
ApplyOverflows(bones, b) ==
    /\ bones[b].parent # None
    /\ ~bones[bones[b].parent].is_updated
    /\ (bones[b].parent = b \/ ApplyOverflows(bones, bones[b].parent))

\* Bone.apply
RECURSIVE apply(_, _)
apply(bones, b) ==
    IF bones[b].parent # None /\ ~bones[bones[b].parent].is_updated
    THEN apply(apply(bones, bones[b].parent), b)
    ELSE [bones EXCEPT ![b].global_matrix = get_global_matrix44(bones, b, TRUE),
                       ![b].local_matrix = multiply44(bones[b].offset_matrix,
                                                      get_global_matrix44(bones, b, TRUE)),
                       ![b].is_updated = TRUE]

\* a delta left as it is, as a variant
kept_delta(bones, b) == bones

\* Bone.reset_delta
reset_delta(bones, b) == [bones EXCEPT ![b].delta_matrix = identity44]

\* the bones by index, as Model.motion_bones lists them
BoneIndices(bones) == [k \in 1..Cardinality(DOMAIN bones) |-> k - 1]

\* Model.level2mbone_indices[level]
level2mbone_indices(bones, level) ==
    SelectSeq(BoneIndices(bones), LAMBDA i : bones[i].level = level)

\* an order that leaves the levels out, as a variant
IndexOrder(bones, levels) == BoneIndices(bones)

\* the bones as the first loop of Model.update_bones visits them: the levels
\* in ascending order, the bones of a level by index
RECURSIVE LevelOrder(_, _)
LevelOrder(bones, levels) ==
    IF levels = {} THEN <<>>
    ELSE level2mbone_indices(bones, CHOOSE l \in levels : \A m \in levels : l <= m)
             \o LevelOrder(bones, levels \ {CHOOSE l \in levels : \A m \in levels : l <= m})

\* a call of update_bones, as it is made: the bones after it and the call
\* added to the calls made
Called(st, r, call) ==
    IF r.err # "" THEN [st EXCEPT !.err = r.err]
    ELSE [st EXCEPT !.bones = r.bones, !.calls = Append(st.calls, call)]

\* the IK solve of bone b in the first loop of Model.update_bones
IkSolve(st, b) ==
    IF ~st.bones[b].is_ik THEN st
    ELSE IF Unrooted(st.bones, b) THEN [st EXCEPT !.err = "RecursionError"]
    ELSE Called(st,
                ik_move44(st.bones, st.bones[b].ik_effect_bone,
                          get_global_matrix44(st.bones, b, FALSE).pos,
                          st.bones[b].ik_links, st.bones[b].ik_iterations),
                <<"ik_move", b>>)

\* the grant of bone b in the first loop of Model.update_bones
GrantCall(st, b) ==
    IF st.err # "" THEN st
    ELSE Called(st, [err |-> "", bones |-> grant(st.bones, b)], <<"grant", b>>)

\* the first loop of Model.update_bones from the k-th bone of order on
RECURSIVE GrantLoop(_, _, _)
GrantLoop(st, order, k) ==
    IF st.err # "" \/ k > Len(order) THEN st
    ELSE GrantLoop(GrantCall(IkSolve(st, order[k]), order[k]), order, k + 1)

\* the loop of Model.update_bones that clears the flags, from bone b on
RECURSIVE FlagLoop(_, _)
FlagLoop(st, b) ==
    IF st.err # "" \/ b \notin DOMAIN st.bones THEN st
    ELSE FlagLoop(Called(st, [err |-> "", bones |-> [st.bones EXCEPT ![b].is_updated = FALSE]],
                         <<"is_updated", b>>),
                  b + 1)

\* the last loop of Model.update_bones from bone b on: apply, then reset_delta
RECURSIVE ApplyLoop(_, _)
ApplyLoop(st, b) ==
    IF st.err # "" \/ b \notin DOMAIN st.bones THEN st
    ELSE IF ApplyOverflows(st.bones, b) THEN [st EXCEPT !.err = "RecursionError"]
    ELSE ApplyLoop(Called(Called(st, [err |-> "", bones |-> apply(st.bones, b)],
                                 <<"apply", b>>),
                          [err |-> "", bones |-> reset_delta(apply(st.bones, b), b)],
                          <<"reset_delta", b>>),
                   b + 1)

\* Model.update_bones up to its last loop: the IK solves and grants, then the
\* flags cleared
FlagsCleared(bones) ==
    FlagLoop(GrantLoop([err |-> "", bones |-> bones, calls |-> <<>>],
                       LevelOrder(bones, {bones[b].level : b \in DOMAIN bones}), 1),
             0)

\* Model.update_bones: the bones it leaves, the calls it made, and the error
\* it raised
update_bones(bones) == ApplyLoop(FlagsCleared(bones), 0)

\* what a key frame adds to a bone's delta: a translation, then a rotation
KeyFramePose == <<translation44(<<1, 0>>), rotation44(1)>>

InitGrant ==
    /\ \E data \in GrantModels : granted_bones = [i \in GrantBones |-> GrantBone(data, i)]
    /\ posed_bones = <<>>
    /\ grant_step = 0
    /\ update_calls = <<>>
    /\ gpc = "ready"
    /\ MotionIdle
    /\ BoneIdle
    /\ PmxIdle
    /\ VmdIdle
    /\ ConvertIdle
    /\ IkIdle
    /\ BezierIdle

\* Motion.step: the key frames of the bones in moved add to their deltas
GrantMotionStep ==
    /\ gpc = "ready"
    /\ grant_step < MaxGrantSteps
    /\ \E moved \in SUBSET GrantBones :
        granted_bones' =
            [b \in GrantBones |->
                IF b \in moved
                THEN [granted_bones[b] EXCEPT !.delta_matrix =
                         multiply44(KeyFramePose[2], multiply44(KeyFramePose[1], @))]
                ELSE granted_bones[b]]
    /\ gpc' = "posed"
    /\ UNCHANGED <<posed_bones, grant_step, update_calls>>
    /\ UNCHANGED notGrant

\* Model.update_bones, the second half of the viewer's step
GrantUpdateBones ==
    /\ gpc = "posed"
    /\ posed_bones' = granted_bones
    /\ \E st \in {update_bones(granted_bones)} :
        /\ granted_bones' = st.bones
        /\ update_calls' = st.calls
        /\ gpc' = IF st.err = "" THEN "ready" ELSE st.err
    /\ grant_step' = grant_step + 1
    /\ UNCHANGED notGrant

NextGrant == GrantMotionStep \/ GrantUpdateBones

SpecGrant == InitGrant /\ [][NextGrant]_vars

\* ---------------------------------------------------------------------------
\* Properties of the following bones
\* ---------------------------------------------------------------------------

\* the follower and the bone it follows, after a step and as the step's
\* update_bones found them
FollowerNow == granted_bones[2]
FollowerPosed == posed_bones[2]
FollowedNow == granted_bones[FollowerNow.grant_parent_bone]
FollowedPosed == posed_bones[FollowerNow.grant_parent_bone]

StepMade == gpc = "ready" /\ grant_step > 0

Scaled(v, rate) == <<v[1] * rate, v[2] * rate>>

\* what the apply pass folds the follower's delta into
FollowerBase ==
    IF FollowerNow.parent # None
    THEN multiply44(FollowerNow.part_matrix, granted_bones[FollowerNow.parent].global_matrix)
    ELSE FollowerPosed.global_matrix

\* the follower's global matrix with rate times the followed bone's rotation
\* composed into its pose
RotationComposed ==
    FollowerNow.global_matrix
        = multiply44(multiply44(rotation44(get_rotation(FollowedPosed)
                                           * FollowerNow.grant_parent_rate),
                                FollowerPosed.delta_matrix),
                     FollowerBase)

\* C20: after a step, a follower by translation with no edit of its own has
\* the global position rate times the followed bone's global position (the
\* position the grant read, or the one the step ends with), and a follower by
\* rotation has rate times the followed bone's rotation composed into its
\* pose, with or without a parent.
C20_GrantReachesGlobalPose ==
    StepMade =>
        /\ FollowerNow.grant_is_translation /\ FollowerPosed.delta_matrix = identity44
               => \/ FollowerNow.global_matrix.pos
                         = Scaled(FollowedPosed.global_matrix.pos, FollowerNow.grant_parent_rate)
                  \/ FollowerNow.global_matrix.pos
                         = Scaled(FollowedNow.global_matrix.pos, FollowerNow.grant_parent_rate)
        /\ ~FollowerNow.grant_is_translation => RotationComposed

\* what does hold: the rotation is composed with or without a parent; the
\* position is the scaled one for a follower without a parent; a follower
\* with a parent ends the step where its parent puts it, as if nothing had
\* been granted
C20_GrantAsApplied ==
    StepMade =>
        /\ ~FollowerNow.grant_is_translation => RotationComposed
        /\ FollowerNow.grant_is_translation /\ FollowerNow.parent = None
               /\ FollowerPosed.delta_matrix = identity44
               => FollowerNow.global_matrix.pos
                      = Scaled(FollowedPosed.global_matrix.pos, FollowerNow.grant_parent_rate)
        /\ FollowerNow.grant_is_translation /\ FollowerNow.parent # None
               => FollowerNow.global_matrix
                      = multiply44(FollowerPosed.delta_matrix, FollowerBase)

\* a follower by translation under a parent, with no edit of its own, that
\* ends a step away from rate times the followed bone's position
C20_GrantLostUnderParent ==
    /\ StepMade
    /\ FollowerNow.grant_is_translation
    /\ FollowerNow.parent # None
    /\ FollowerPosed.delta_matrix = identity44
    /\ FollowerNow.global_matrix.pos
           # Scaled(FollowedPosed.global_matrix.pos, FollowerNow.grant_parent_rate)
    /\ FollowerNow.global_matrix.pos
           # Scaled(FollowedNow.global_matrix.pos, FollowerNow.grant_parent_rate)

\* C21: after every update_bones, each bone's delta matrix is the identity,
\* the bone is marked updated, and its local matrix is offset x global.
C21_BonesResolvedAfterUpdate ==
    StepMade =>
        \A b \in DOMAIN granted_bones :
            /\ granted_bones[b].delta_matrix = identity44
            /\ granted_bones[b].is_updated
            /\ granted_bones[b].local_matrix
                   = multiply44(granted_bones[b].offset_matrix, granted_bones[b].global_matrix)

\* an update_bones that found an edited bone under an edited parent
C21_Witness ==
    /\ StepMade
    /\ \E b \in DOMAIN posed_bones :
        /\ posed_bones[b].parent # None
        /\ posed_bones[b].delta_matrix # identity44
        /\ posed_bones[posed_bones[b].parent].delta_matrix # identity44
        /\ granted_bones[b].delta_matrix = identity44

\* the bones of the last update_bones as its apply pass found them: before
\* bone 0, before bone 1, and so on
RECURSIVE PassFrom(_)
PassFrom(pass) ==
    IF Len(pass) = Cardinality(DOMAIN posed_bones) THEN pass
    ELSE PassFrom(Append(pass, reset_delta(apply(pass[Len(pass)], Len(pass) - 1),
                                           Len(pass) - 1)))

\* the apply pass resolves bone b as C22 has it
FoldedOnce(pass, b) ==
    /\ posed_bones[b].parent # None => pass[b + 1][posed_bones[b].parent].is_updated
    /\ \A resolved \in {apply(pass[b + 1], b)} :
        /\ \A c \in DOMAIN granted_bones \ {b} :
               resolved[c].global_matrix = pass[b + 1][c].global_matrix
        /\ apply(resolved, b) = resolved
        /\ granted_bones[b].global_matrix = resolved[b].global_matrix
    /\ posed_bones[b].parent # None =>
           granted_bones[b].global_matrix
               = multiply44(pass[1][b].delta_matrix,
                            multiply44(granted_bones[b].part_matrix,
                                       granted_bones[granted_bones[b].parent].global_matrix))

\* C22: in the apply pass of a step, a bone's parent is resolved before the
\* bone; the apply of a bone stores no other bone's global matrix, and a
\* second apply of the bone changes nothing; the stored global matrix of a
\* bone with a parent is the step's delta x part x the parent's stored global
\* matrix of the same step.
C22_ApplyFoldsDeltaOnce ==
    StepMade =>
        \A pass \in {PassFrom(<<FlagsCleared(posed_bones).bones>>)} :
            \A b \in DOMAIN granted_bones : FoldedOnce(pass, b)

\* an apply pass that moved a bone whose delta and whose parent's delta were
\* edited
C22_Witness ==
    /\ StepMade
    /\ \E b \in DOMAIN posed_bones :
        /\ posed_bones[b].parent # None
        /\ posed_bones[b].delta_matrix # identity44
        /\ posed_bones[posed_bones[b].parent].delta_matrix # identity44
        /\ granted_bones[b].global_matrix # posed_bones[b].global_matrix
        /\ granted_bones[posed_bones[b].parent].global_matrix
               # posed_bones[posed_bones[b].parent].global_matrix
        /\ granted_bones[b].global_matrix
               # multiply44(granted_bones[b].part_matrix,
                            granted_bones[posed_bones[b].parent].global_matrix)

\* update_bones is about to run on the deltas the update_bones before it found
SameDeltasAgain ==
    /\ gpc = "posed"
    /\ grant_step > 0
    /\ \A b \in DOMAIN granted_bones :
           granted_bones[b].delta_matrix = posed_bones[b].delta_matrix

\* C27: an update_bones that finds the deltas the update_bones of the step
\* before found leaves every bone's global and local matrix as that one left
\* them.
C27_SameDeltasSameMatrices ==
    [][SameDeltasAgain /\ gpc' = "ready"
           => \A b \in DOMAIN granted_bones :
                  /\ granted_bones'[b].global_matrix = granted_bones[b].global_matrix
                  /\ granted_bones'[b].local_matrix = granted_bones[b].local_matrix]_vars

\* what does hold: a bone with a parent takes its global matrix from the
\* parent's, so it is as before when its parent's is
C27_SameUnderSameParent ==
    [][SameDeltasAgain /\ gpc' = "ready"
           => \A b \in DOMAIN granted_bones :
                  /\ granted_bones[b].parent # None
                  /\ granted_bones'[granted_bones[b].parent].global_matrix
                         = granted_bones[granted_bones[b].parent].global_matrix
                  => /\ granted_bones'[b].global_matrix = granted_bones[b].global_matrix
                     /\ granted_bones'[b].local_matrix = granted_bones[b].local_matrix]_vars

\* a second step with the deltas of the first has moved a bone with no parent
\* and no grant once more
C27_RootAccumulates ==
    /\ StepMade
    /\ grant_step = 2
    /\ \E b \in DOMAIN granted_bones :
        /\ granted_bones[b].parent = None
        /\ granted_bones[b].grant_parent_bone = None
        /\ posed_bones[b].delta_matrix = multiply44(KeyFramePose[2], KeyFramePose[1])
        /\ posed_bones[b].global_matrix
               = multiply44(posed_bones[b].delta_matrix, granted_bones[b].init_matrix)
        /\ granted_bones[b].global_matrix
               = multiply44(posed_bones[b].delta_matrix, posed_bones[b].global_matrix)
        /\ granted_bones[b].global_matrix # posed_bones[b].global_matrix

\* the places of the calls of the last update_bones
CallPlaces == DOMAIN update_calls

\* the call at place i visits a bone in the first loop
IsVisit(i) == update_calls[i][1] \in {"ik_move", "grant"}

\* C23: update_bones visits the bones level by level in ascending order, each
\* bone once; the IK solve of an IK bone runs just before that bone's grant;
\* every IK solve and grant comes before any flag is cleared and before any
\* apply.
C23_LevelsThenFlagsThenApply ==
    grant_step > 0 /\ gpc # "posed" =>
        /\ \A i, j \in CallPlaces :
               i < j /\ IsVisit(i) /\ IsVisit(j)
               => granted_bones[update_calls[i][2]].level
                      <= granted_bones[update_calls[j][2]].level
        /\ \A i, j \in CallPlaces :
               i < j /\ update_calls[i] = update_calls[j] => FALSE
        /\ \A i \in CallPlaces :
               update_calls[i][1] = "ik_move"
               => /\ granted_bones[update_calls[i][2]].is_ik
                  /\ i + 1 \in CallPlaces
                  /\ update_calls[i + 1] = <<"grant", update_calls[i][2]>>
        /\ \A b \in DOMAIN granted_bones :
               /\ \E i \in CallPlaces : update_calls[i] = <<"grant", b>>
               /\ granted_bones[b].is_ik => \E i \in CallPlaces : update_calls[i] = <<"ik_move", b>>
        /\ \A i, j \in CallPlaces : IsVisit(i) /\ ~IsVisit(j) => i < j

\* an update_bones that visited a later bone of a lower level first, solved
\* the IK of a bone and came to the apply pass
C23_Witness ==
    /\ StepMade
    /\ \E i, j \in CallPlaces :
        /\ i < j
        /\ update_calls[i][1] = "grant"
        /\ update_calls[j][1] = "grant"
        /\ update_calls[i][2] > update_calls[j][2]
    /\ \E i, j \in CallPlaces :
        /\ update_calls[i][1] = "ik_move"
        /\ update_calls[j][1] = "apply"
        /\ posed_bones[update_calls[i][2]].ik_iterations > 0
        /\ posed_bones[update_calls[i][2]].delta_matrix # identity44

\* the links of IK bone b, as a set
LinksOf(bones, b) == {bones[b].ik_links[k] : k \in DOMAIN bones[b].ik_links}

\* ik_move as update_bones calls it for IK bone b
IkMoveOf(bones, b) ==
    ik_move44(bones, bones[b].ik_effect_bone, get_global_matrix44(bones, b, FALSE).pos,
              bones[b].ik_links, bones[b].ik_iterations)

\* the first iteration of ik_move for IK bone b, on its first link
FirstOutcome(bones, b) ==
    IkOutcome(LocalPosition(get_global_matrix44(bones, bones[b].ik_effect_bone, FALSE),
                            get_global_matrix44(bones, bones[b].ik_links[1], FALSE)),
              LocalPosition(translation44(get_global_matrix44(bones, b, FALSE).pos),
                            get_global_matrix44(bones, bones[b].ik_links[1], FALSE)))

\* bone c is in after as it is in before, but for its delta matrix
SaveDelta(before, after, c) == after[c] = [before[c] EXCEPT !.delta_matrix = after[c].delta_matrix]

\* C25: ik_move, for any IK bone of the posed model, changes nothing but the
\* delta matrices of the bones of the chain: every stored global and local
\* matrix, every parent, grant and IK reference, and every bone outside the
\* chain (the effector and the IK bone too, when they are no links) are as
\* before.
C25_IkMoveTouchesChainDeltasOnly ==
    gpc = "posed" =>
        \A b \in DOMAIN granted_bones :
            granted_bones[b].is_ik =>
                \A r \in {IkMoveOf(granted_bones, b)} :
                    /\ r.err = ""
                    /\ DOMAIN r.bones = DOMAIN granted_bones
                    /\ \A c \in DOMAIN granted_bones :
                           /\ SaveDelta(granted_bones, r.bones, c)
                           /\ c \notin LinksOf(granted_bones, b) => r.bones[c] = granted_bones[c]

\* more than C25 says: rotate_axis is called without update, so ik_move
\* leaves the deltas of the chain as they are too
C25_IkMoveChangesNothing ==
    gpc = "posed" =>
        \A b \in DOMAIN granted_bones :
            granted_bones[b].is_ik => IkMoveOf(granted_bones, b).bones = granted_bones

\* a posed model with an IK bone whose solve rotates its first link and has a
\* second, the effector, the IK bone and the link having been edited
C25_Witness ==
    /\ gpc = "posed"
    /\ \E b \in DOMAIN granted_bones :
        /\ granted_bones[b].is_ik
        /\ granted_bones[b].ik_iterations > 0
        /\ FirstOutcome(granted_bones, b) = "rotated"
        /\ granted_bones[b].ik_effect_bone \notin LinksOf(granted_bones, b)
        /\ b \notin LinksOf(granted_bones, b)
        /\ \A c \in DOMAIN granted_bones : granted_bones[c].delta_matrix # identity44

\* an IK solve that stops at its first iteration and leaves its second link
\* out
C25_WitnessExit ==
    /\ gpc = "posed"
    /\ \E b \in DOMAIN granted_bones :
        /\ granted_bones[b].is_ik
        /\ granted_bones[b].ik_iterations > 0
        /\ Len(granted_bones[b].ik_links) > 1
        /\ FirstOutcome(granted_bones, b) # "rotated"

\* once exit_flag is set, no iteration runs and no link is taken up
IkStopsAtExit ==
    [][IkCalled /\ ik.exit_flag
           => /\ ik'.iterations = ik.iterations
              /\ ik'.link = ik.link
              /\ ik'.exit_flag
              /\ ikpc' \in {"if exit_flag", "returned"}]_vars

\* C24: as soon as an iteration of ik_move finds the angle or the cross
\* product below the tolerance, the call ends: no further iteration runs, no
\* later link is processed, and ik_move returns.
C24_IkExitEndsCall ==
    /\ IkStopsAtExit
    /\ (IkCalled /\ ik.exit_flag) ~> (ikpc = "returned")

\* a return from the first of two links, after a rotation and with iterations
\* to spare
C24_Witness ==
    /\ ikpc = "returned"
    /\ ik.exit_flag
    /\ ik.link = 1
    /\ Len(ik.chain) = MaxLinks
    /\ ik.iterations = 2
    /\ ik.loop_size = loop_range

\* every track of a constructed motion has a current key
CurrentKeysSet ==
    mpc \in {"ready", "stepped"} =>
        \A name \in DOMAIN current_key_frames :
            current_key_frames[name] \in DOMAIN key_frames

\* what Motion.step does to the motion
StepsByOne ==
    mpc = "ready" /\ mpc' = "stepped"
    => /\ current_frame' = current_frame + 1
       /\ DOMAIN current_key_frames' = DOMAIN current_key_frames
       /\ \A name \in DOMAIN current_key_frames :
              current_key_frames'[name]
                  \in {current_key_frames[name],
                       key_frames[current_key_frames[name]].next_frame}
       /\ key_frames' = key_frames
       /\ motions_key_frames' = motions_key_frames

\* C28: Motion.step raises current_frame by exactly 1 and nothing else moves
\* it; each track's current key is never None and is, after a step, the key
\* it was or that key's next_frame; the keys and their links are left as
\* they are.
C28_StepAdvancesByOne ==
    /\ [](CurrentKeysSet)
    /\ [][StepsByOne]_vars
    /\ [][mpc # "ready" /\ mpc' # "ready" => current_frame' = current_frame]_vars
    /\ [][mpc = "stepped" => current_frame' = current_frame /\ key_frames' = key_frames]_vars

\* a step, not the first, that moved one track on to its next key and kept
\* the other where it was
C28_Witness ==
    /\ mpc = "stepped"
    /\ current_frame > 1
    /\ \E n1, n2 \in DOMAIN calls :
        /\ calls[n1].ret # calls[n1].key
        /\ calls[n1].ret = key_frames[calls[n1].key].next_frame
        /\ calls[n2].ret = calls[n2].key

\* the motion is constructed and Motion.finished() is true
MotionFinished == mpc # "new" /\ finished

\* C26: whatever the keys of the tracks, repeated steps make finished() true,
\* and it stays true.
C26_MotionFinishes == <>[]MotionFinished

\* the current key of track name has a successor of its own frame number
OnSharedFrame(name) ==
    /\ key_frames[current_key_frames[name]].next_frame # None
    /\ key_frames[key_frames[current_key_frames[name]].next_frame].frame_number
           = key_frames[current_key_frames[name]].frame_number

\* a track whose current key shares its frame number with its successor stays
\* on that key, whatever the step
C26_SharedFrameHoldsCursor ==
    [][\A name \in DOMAIN current_key_frames :
           mpc \in {"ready", "stepped"} /\ OnSharedFrame(name)
           => /\ current_key_frames'[name] = current_key_frames[name]
              /\ ~finished']_vars

\* no two keys of a track share a frame number
DistinctFrames ==
    \A i, j \in DOMAIN key_frames :
        /\ i # j
        /\ key_frames[i].bone = key_frames[j].bone
        => key_frames[i].frame_number # key_frames[j].frame_number

\* what does hold: tracks without a shared frame number finish, a first key
\* after frame 0 or not
C26_DistinctFramesFinish == <>[](MotionFinished \/ ~DistinctFrames)

\* steps were made at frames past every key and a track is still on the first
\* of two keys of one frame number
C26_NeverFinished ==
    /\ mpc = "stepped"
    /\ current_frame = MaxStep
    /\ \E name \in DOMAIN calls : calls[name].frame = MaxStep
    /\ ~finished
    /\ \E name \in DOMAIN current_key_frames :
        /\ OnSharedFrame(name)
        /\ current_key_frames[name] = motions_key_frames[name][1]

\* the collections of a decoded model
Collections ==
    {"vertex", "face", "texture", "material", "bone", "morph", "display", "rigid", "joint"}

\* the count field of a section, as the file was written: the vertex indices of
\* the faces, the elements of any other section
CountField(section) == IF section = "face" THEN 3 * pmx_file.elements ELSE pmx_file.elements

\* what the count field declares: a triplet for three vertex indices, an entry
\* for an element
Declared(section) == IF section = "face" THEN CountField(section) \div 3 ELSE CountField(section)

\* C29: after a load that succeeded, every decoded collection holds as many
\* entries as its count field declared, the faces a third of theirs.
C29_CollectionsMatchCounts ==
    ppc = "done" => \A section \in Collections : Len(model[section]) = Declared(section)

\* what does hold: every collection but the display frames holds the entries
\* declared; the display frames are the two of Model.__init__, then the
\* entries declared
C29_DecodedAfterInitial ==
    ppc = "done" =>
        \A section \in Collections :
            /\ Len(model[section]) = Len(NewModelList(section)) + Declared(section)
            /\ SubSeq(model[section], 1, Len(NewModelList(section))) = NewModelList(section)

\* a load that succeeded and left two display frames more than the file holds
C29_DisplayHoldsTwoMore ==
    /\ ppc = "done"
    /\ pmx_file.elements > 0
    /\ Len(model.display) = pmx_file.elements + 2
    /\ model.display[1] = root_display
    /\ model.display[2] = face_display
    /\ model.display[3] # root_display
    /\ Len(model.face) = pmx_file.elements
    /\ Len(model.joint) = pmx_file.elements

\* index is one of the textures of the decoded model
IsTexture(index) == index \in 0..(Len(pmx_model.texture) - 1)

\* name is the path of the texture at index, and of no texture when index is
\* none of them
ResolvedFrom(name, index) ==
    IF IsTexture(index) THEN name = pmx_model.texture[index + 1].path ELSE name = NoName

\* C30: in the model from_pmx returns, the texture and the sphere texture of a
\* material are the paths of the textures at their indices when these are in
\* 0..T-1 and no path otherwise (-1 is no texture), and a toon texture that is
\* not shared is resolved in that way from the toon index.
C30_TextureResolvedInRangeOnly ==
    cpc = "converted" =>
        \A i \in DOMAIN pmx_model.material :
            /\ ResolvedFrom(mmd_model.material[i].texture_name,
                            pmx_model.material[i].texture_index)
            /\ ResolvedFrom(mmd_model.material[i].sphere_texture_name,
                            pmx_model.material[i].sphere_texture_index)
            /\ ~pmx_model.material[i].is_shared_toon_texture
                   => ResolvedFrom(mmd_model.material[i].toon_texture_name,
                                   pmx_model.material[i].toon_texture_number)

\* what does hold: the sphere texture is resolved from its index when that is
\* in range; the texture is the entry Python's indexing gives, -1 being the
\* last texture; the toon texture is looked up only when the sphere index is
\* in range
C30_AsConverted ==
    cpc = "converted" =>
        \A i \in DOMAIN pmx_model.material :
            /\ ResolvedFrom(mmd_model.material[i].sphere_texture_name,
                            pmx_model.material[i].sphere_texture_index)
            /\ mmd_model.material[i].texture_name
                   = PyIndex(pmx_model.texture, pmx_model.material[i].texture_index).path
            /\ ~pmx_model.material[i].is_shared_toon_texture
                   /\ ~IsTexture(pmx_model.material[i].sphere_texture_index)
                   => mmd_model.material[i].toon_texture_name = NoName

\* a material with texture index -1 that was given the last texture's path
C30_SentinelResolves ==
    /\ cpc = "converted"
    /\ \E i \in DOMAIN pmx_model.material :
        /\ pmx_model.material[i].texture_index = -1
        /\ mmd_model.material[i].texture_name
               = pmx_model.texture[Len(pmx_model.texture)].path

\* a material whose toon index is a texture and whose toon texture was not
\* resolved, its sphere index being -1
C30_ToonFollowsSphere ==
    /\ cpc = "converted"
    /\ \E i \in DOMAIN pmx_model.material :
        /\ ~pmx_model.material[i].is_shared_toon_texture
        /\ IsTexture(pmx_model.material[i].toon_texture_number)
        /\ pmx_model.material[i].sphere_texture_index = -1
        /\ mmd_model.material[i].toon_texture_name = NoName

\* from_pmx ends with IndexError on a material with texture index -1, the
\* model having no texture
C30_SentinelRaises ==
    /\ cpc = "error"
    /\ convert_error = "IndexError"
    /\ pmx_model.texture = <<>>
    /\ \E i \in DOMAIN pmx_model.material : pmx_model.material[i].texture_index = -1

====
